---- MODULE Spec2Model ----
(***************************************************************************)
(* The stepped agent loop of the nano-claw HTTP API server                  *)
(* (src/api/server.ts): POST /api/chat starts a loop, the loop pauses at    *)
(* tool calls in the pending store, POST /api/chat/approve and              *)
(* /api/chat/reject resume it.  A handler runs atomically between two of    *)
(* its awaits; the awaits are the tool execution and the provider call.     *)
(* With it, one call of AnthropicProvider.complete                         *)
(* (src/providers/base.ts): the encoding of the canonical messages for the *)
(* vendor and the decoding of the vendor's answer; and the entrypoint of   *)
(* the container (docker/entrypoint.sh), which starts the API server and,  *)
(* once it is healthy, the voice server.                                   *)
(***************************************************************************)
EXTENDS Integers, Sequences, FiniteSets, TLC

VARIABLES
    sessionMemories,    \* sessionId -> message sequence of its Memory
    pendingRequests,    \* requestId -> PendingToolState
    pendingTimestamps,  \* requestId -> Date.now() at suspension
    now,                \* Date.now(), in ms
    calls,              \* handler slot -> the HTTP call it is serving
    nextRequestId,      \* the requestId crypto.randomUUID() returns next
    nextToolId,         \* the tool-call id the vendor mints next
    issued,             \* history: requestId -> the state stored under it
    execLog,            \* history: the tool executions, in start order
    nreq,               \* history: HTTP calls accepted so far
    chainCalls,         \* history: handler slot -> provider calls begun so
                        \* far in the chain of its call; a chain is one
                        \* accepted Start and the calls that resume it
    suspension,         \* history: requestId -> the provider calls of its
                        \* chain and Date.now(), both when it was minted
    messages,           \* AnthropicProvider.complete: its messages argument
    requestData,        \* the body it posts to the vendor
    responseData,       \* response.data, the vendor's answer
    llmResponse,        \* the LLMResponse it returns
    echoed,             \* history: the posted message the answer repeats
    codecPc,            \* how far the call of complete has come
    vendor,             \* the provider adapter whose complete is called
    postError,          \* history: the error complete caught, if any
    thrown,             \* the error complete throws, if any
    entryPc,            \* entrypoint.sh: the command it is at
    loopI,              \* entrypoint.sh: the loop variable i
    READY,              \* entrypoint.sh: the shell variable
    api,                \* the process of NC_PID
    voice,              \* the process of VOICE_PID
    exitStatus,         \* the exit status of entrypoint.sh, -1 while it runs
    attempts,           \* history: health checks made
    successes,          \* history: health checks that succeeded
    slept,              \* history: seconds slept between health checks
    ws,                 \* app.js: the readyState of the socket
    pc,                 \* app.js: there is a peer connection (pc is not null)
    micStream,          \* app.js: there is a microphone stream
    isRecording,        \* app.js
    agentSpeaking,      \* app.js
    talkBtn,            \* app.js: talkBtn.disabled
    cards,              \* app.js: the tool cards in the chat log, in order
    sent,               \* history: the messages given to ws.send, in order
    startPc             \* app.js: the await startWebRTC is suspended at

(* The state of the API server, and the state of one provider call *)
serverVars == <<sessionMemories, pendingRequests, pendingTimestamps, now,
                calls, nextRequestId, nextToolId, issued, execLog, nreq,
                chainCalls, suspension>>

codecVars == <<messages, requestData, responseData, llmResponse, echoed,
               codecPc, vendor, postError, thrown>>

bootVars == <<entryPc, loopI, READY, api, voice, exitStatus, attempts, successes,
              slept>>

uiVars == <<ws, pc, micStream, isRecording, agentSpeaking, talkBtn, cards,
            sent, startPc>>

vars == <<serverVars, codecVars, bootVars, uiVars>>

----------------------------------------------------------------------------
(* Bounds of the model *)

MaxRequests == 3        \* HTTP calls in a behaviour of Spec
MaxMessages == 4        \* messages behind the system prompt in SpecAnthropic
MaxSent == 6            \* messages sent before the last handler of SpecMic
MaxCards == 3           \* tool cards shown in SpecCards

(* Program constants *)

HEALTH_ATTEMPTS == 30              \* seq 1 30
MAX_ITERATIONS == 10
PENDING_TTL_MS == 600000
StaleMs == PENDING_TTL_MS + 1      \* the least age the sweep removes; in
                                   \* Spec the clock advances once, by this

Handlers == {1, 2}
NoRequest == 0
NoSession == "-"
MaxIterText == "Max iterations reached."

----------------------------------------------------------------------------
(* Canonical messages and tool calls *)

ToolCallOf(id, name, arguments) ==
    [id |-> id, type |-> "function",
     function |-> [name |-> name, arguments |-> arguments]]

(* JSON.parse on the argument strings of the model: the strings in the     *)
(* domain parse to the value given, every other string makes it throw.     *)
EmptyObject == [k \in {} |-> ""]

JsonParse ==
    [s \in {"{\"cmd\":\"ls\"}", "{ \"cmd\": \"ls\" }", "{}"} |->
        IF s = "{}" THEN EmptyObject ELSE [cmd |-> "ls"]]

(* mutant: the input is not serialized *)
JsonStringifyLost(value) == "{}"

(* JSON.stringify on the values of the model: the text without whitespace  *)
(* that parses to the value                                                *)
JsonStringify(value) ==
    CHOOSE s \in {"{\"cmd\":\"ls\"}", "{}"} : JsonParse[s] = value

(* mutant: arguments that do not parse become the empty object *)
safeParseToolArgsEmpty(argsJson) ==
    IF argsJson \in DOMAIN JsonParse
    THEN JsonParse[argsJson]
    ELSE EmptyObject

safeParseToolArgs(argsJson) ==
    IF argsJson \in DOMAIN JsonParse
    THEN JsonParse[argsJson]
    ELSE [_raw |-> argsJson]

getAgentConfig ==
    [model |-> "anthropic/claude-opus-4-5", temperature |-> "0.7",
     maxTokens |-> 4096]

(* Memory.getMessages / Memory.addMessage: an append-only sequence *)
getMessages(mem, sessionId) ==
    IF sessionId \in DOMAIN mem THEN mem[sessionId] ELSE <<>>

(* mutant: the new message is put in front *)
addMessageInFront(mem, sessionId, msg) ==
    [s \in DOMAIN mem \cup {sessionId} |->
        IF s = sessionId THEN <<msg>> \o getMessages(mem, sessionId)
        ELSE mem[s]]

addMessage(mem, sessionId, msg) ==
    [s \in DOMAIN mem \cup {sessionId} |->
        IF s = sessionId THEN Append(getMessages(mem, sessionId), msg)
        ELSE mem[s]]

addMessages(mem, sessionId, msgs) ==
    [s \in DOMAIN mem \cup {sessionId} |->
        IF s = sessionId THEN getMessages(mem, sessionId) \o msgs
        ELSE mem[s]]

(* mutant: every lookup makes a new Memory *)
getMemoryAlwaysNew(mem, sessionId) ==
    [s \in DOMAIN mem \cup {sessionId} |->
        IF s = sessionId THEN <<>> ELSE mem[s]]

(* getMemory: the session's Memory, created on first reference *)
getMemory(mem, sessionId) ==
    IF sessionId \in DOMAIN mem THEN mem
    ELSE [s \in DOMAIN mem \cup {sessionId} |->
            IF s = sessionId THEN <<>> ELSE mem[s]]

----------------------------------------------------------------------------
(* The HTTP call a handler slot is serving.  pc is the await the handler   *)
(* is suspended at: "exec" (toolRegistry.execute), "llm"                   *)
(* (providerManager.complete); "done" once the response is sent.  The      *)
(* fields from added on record what the call has done so far: the messages *)
(* it appended, its provider calls, the iteration stepLoop was entered     *)
(* with, the requestId it minted, the tool results and the provider's      *)
(* answer it received.                                                     *)
NoResponse == [content |-> "", finishReason |-> "none"]

IdleCall ==
    [pc |-> "idle", kind |-> "none", memory |-> NoSession, message |-> "",
     requestId |-> NoRequest, toolCalls |-> <<>>, k |-> 0, iteration |-> 0,
     agentConfig |-> getAgentConfig, status |-> 0, body |-> <<>>,
     added |-> <<>>, llmCalls |-> 0, entered |-> -1, minted |-> NoRequest,
     results |-> <<>>, provider |-> "none", response |-> NoResponse]

NewCall(kind) == [IdleCall EXCEPT !.kind = kind]

sendJson(c, statusCode, body) ==
    [c EXCEPT !.pc = "done", !.status = statusCode, !.body = body]

Free(h) == calls[h].pc \in {"idle", "done"}

(* The slot a new HTTP call is served in: slots are interchangeable, so    *)
(* the lowest free one                                                     *)
Accepts(h) == Free(h) /\ \A g \in DOMAIN calls : g < h => ~Free(g)

(* String.trim() leaves nothing of these *)
IsBlank(s) == s \in {"", "  "}

(* What parseJsonBody returns for a text that is no JSON: null *)
NullBody == [null |-> TRUE]

(* typeof body[field].  A field of a parsed body is a string unless the    *)
(* body names another JavaScript type for it in typeof.                    *)
typeof(body, field) ==
    IF field \notin DOMAIN body THEN "undefined"
    ELSE IF "typeof" \in DOMAIN body /\ field \in DOMAIN body.typeof
    THEN body.typeof[field]
    ELSE "string"

(* mutant: every content type passes for JSON *)
includesJsonAlways(ct) == ct = ct

(* ct.includes('application/json') on the content types of the model *)
includesJson(ct) ==
    ct \in {"application/json", "application/json; charset=utf-8"}

(* `Error: ${toolResult.error}` *)
ErrorContent(error) ==
    CASE error = "denied" -> "Error: denied"
      [] OTHER -> "Error: undefined"

RejectedContent == "Tool execution was rejected by the user."

userMessage(message) == [role |-> "user", content |-> message]

assistantToolMessage(response) ==
    [role |-> "assistant",
     content |-> response.content,      \* response.content || ''
     tool_calls |-> response.toolCalls]

(* mutant: the final assistant message loses the answer *)
assistantMessageNoContent(response) ==
    [role |-> "assistant", content |-> ""]

assistantMessage(response) ==
    [role |-> "assistant", content |-> response.content]

(* mutant: the tool result loses the id of its call *)
toolResultMessageNoId(toolCall, toolResult) ==
    [role |-> "tool",
     content |-> IF toolResult.success THEN toolResult.output
                 ELSE ErrorContent(toolResult.error),
     name |-> toolCall.function.name,
     tool_call_id |-> 0]

toolResultMessage(toolCall, toolResult) ==
    [role |-> "tool",
     content |-> IF toolResult.success THEN toolResult.output
                 ELSE ErrorContent(toolResult.error),
     name |-> toolCall.function.name,
     tool_call_id |-> toolCall.id]

(* mutant: the rejection is linked to no call *)
toolRejectedMessageNoId(toolCall) ==
    [role |-> "tool",
     content |-> RejectedContent,
     name |-> toolCall.function.name,
     tool_call_id |-> NoRequest]

toolRejectedMessage(toolCall) ==
    [role |-> "tool",
     content |-> RejectedContent,
     name |-> toolCall.function.name,
     tool_call_id |-> toolCall.id]

(* mutant: only the first pending call is answered *)
rejectionMessagesFirstOnly(toolCalls) ==
    [i \in 1..1 |-> toolRejectedMessage(toolCalls[i])]

rejectionMessages(toolCalls) ==
    [i \in 1..Len(toolCalls) |-> toolRejectedMessage(toolCalls[i])]

pendingTools(toolCalls) ==
    [i \in 1..Len(toolCalls) |->
        [name |-> toolCalls[i].function.name,
         args |-> safeParseToolArgs(toolCalls[i].function.arguments)]]

(* mutant: the finishReason decides whether the step suspends *)
hasToolCallsByReason(response) ==
    "toolCalls" \in DOMAIN response /\ response.finishReason = "tool_use"

hasToolCalls(response) ==
    "toolCalls" \in DOMAIN response /\ Len(response.toolCalls) > 0

(* mutant: an id taken from the clock, which repeats within one tick *)
clockUUID == now + 1

(* crypto.randomUUID(): an id no earlier call returned *)
randomUUID == nextRequestId

(* One start of toolRegistry.execute, as the log keeps it *)
execEntry(c, toolCall) ==
    [kind |-> c.kind, requestId |-> c.requestId, id |-> toolCall.id,
     name |-> toolCall.function.name,
     args |-> safeParseToolArgs(toolCall.function.arguments)]

----------------------------------------------------------------------------
(* mutant: every provider call counts for two iterations *)
stepLoopCountsTwice(h, c, iteration) ==
    IF iteration < MAX_ITERATIONS
    THEN calls' = [calls EXCEPT ![h] =
                     [c EXCEPT !.pc = "llm", !.iteration = iteration + 2,
                               !.entered = iteration, !.llmCalls = @ + 1]]
    ELSE calls' = [calls EXCEPT ![h] =
                     sendJson([c EXCEPT !.entered = iteration], 200,
                              [type |-> "final", response |-> MaxIterText])]

(* mutant: the bound is compared with <= *)
stepLoopOffByOne(h, c, iteration) ==
    IF iteration <= MAX_ITERATIONS
    THEN calls' = [calls EXCEPT ![h] =
                     [c EXCEPT !.pc = "llm", !.iteration = iteration + 1,
                               !.entered = iteration, !.llmCalls = @ + 1]]
    ELSE calls' = [calls EXCEPT ![h] =
                     sendJson([c EXCEPT !.entered = iteration], 200,
                              [type |-> "final", response |-> MaxIterText])]

(* stepLoop, from its entry to the await of providerManager.complete (or   *)
(* to its return when the iteration bound is reached).  c is the call so   *)
(* far; the caller has set c.memory and c.agentConfig.                     *)
stepLoop(h, c, iteration) ==
    IF iteration < MAX_ITERATIONS
    THEN calls' = [calls EXCEPT ![h] =
                     [c EXCEPT !.pc = "llm", !.iteration = iteration + 1,
                               !.entered = iteration, !.llmCalls = @ + 1]]
    ELSE calls' = [calls EXCEPT ![h] =
                     sendJson([c EXCEPT !.entered = iteration], 200,
                              [type |-> "final", response |-> MaxIterText])]

(* history: the call in slot h goes on with a chain of so many provider    *)
(* calls, and the provider call it begins in this step, if it begins one,  *)
(* is counted                                                              *)
countCall(h, before) ==
    chainCalls' = [chainCalls EXCEPT ![h] =
                      before + (IF calls'[h].pc = "llm" THEN 1 ELSE 0)]

(* mutant: the state keeps the iteration the step was entered with *)
PendingToolStateStale(c, response) ==
    [memory |-> c.memory, toolCalls |-> response.toolCalls,
     assistantContent |-> response.content,
     iteration |-> c.entered, agentConfig |-> c.agentConfig]

(* The suspended state stepLoop stores when it pauses *)
PendingToolState(c, response) ==
    [memory |-> c.memory, toolCalls |-> response.toolCalls,
     assistantContent |-> response.content,
     iteration |-> c.iteration, agentConfig |-> c.agentConfig]

(* mutant: the suspended state is stored without its creation timestamp *)
stepLoopPauseNoTimestamp(h, response) ==
    LET c == [calls[h] EXCEPT !.provider = "ok", !.response = response]
        requestId == randomUUID
        state == PendingToolState(c, response)
        msg == assistantToolMessage(response)
    IN /\ sessionMemories' = addMessage(sessionMemories, c.memory, msg)
       /\ pendingRequests' =
             [r \in DOMAIN pendingRequests \cup {requestId} |->
                 IF r = requestId THEN state ELSE pendingRequests[r]]
       /\ UNCHANGED pendingTimestamps
       /\ issued' =
             [r \in DOMAIN issued \cup {requestId} |->
                 IF r = requestId THEN state ELSE issued[r]]
       /\ suspension' =
             [r \in DOMAIN suspension \cup {requestId} |->
                 IF r = requestId THEN [calls |-> chainCalls[h], at |-> now]
                 ELSE suspension[r]]
       /\ nextRequestId' = nextRequestId + 1
       /\ calls' = [calls EXCEPT ![h] =
             sendJson([c EXCEPT !.added = Append(@, msg),
                                !.minted = requestId],
                      200,
                      [type |-> "tool_pending", requestId |-> requestId,
                       tools |-> pendingTools(response.toolCalls)])]

(* stepLoop after the provider answered with tool calls: pause *)
stepLoopPause(h, response) ==
    LET c == [calls[h] EXCEPT !.provider = "ok", !.response = response]
        requestId == randomUUID
        state == PendingToolState(c, response)
        msg == assistantToolMessage(response)
    IN /\ sessionMemories' = addMessage(sessionMemories, c.memory, msg)
       /\ pendingRequests' =
             [r \in DOMAIN pendingRequests \cup {requestId} |->
                 IF r = requestId THEN state ELSE pendingRequests[r]]
       /\ pendingTimestamps' =
             [r \in DOMAIN pendingTimestamps \cup {requestId} |->
                 IF r = requestId THEN now ELSE pendingTimestamps[r]]
       /\ issued' =
             [r \in DOMAIN issued \cup {requestId} |->
                 IF r = requestId THEN state ELSE issued[r]]
       /\ suspension' =
             [r \in DOMAIN suspension \cup {requestId} |->
                 IF r = requestId THEN [calls |-> chainCalls[h], at |-> now]
                 ELSE suspension[r]]
       /\ nextRequestId' = nextRequestId + 1
       /\ calls' = [calls EXCEPT ![h] =
             sendJson([c EXCEPT !.added = Append(@, msg),
                                !.minted = requestId],
                      200,
                      [type |-> "tool_pending", requestId |-> requestId,
                       tools |-> pendingTools(response.toolCalls)])]

(* mutant: after a final answer the while loop goes round again *)
stepLoopFinalLoops(h, response) ==
    LET c == [calls[h] EXCEPT !.provider = "ok", !.response = response]
        msg == assistantMessage(response)
    IN /\ sessionMemories' = addMessage(sessionMemories, c.memory, msg)
       /\ calls' = [calls EXCEPT ![h] =
             IF c.iteration < MAX_ITERATIONS
             THEN [c EXCEPT !.added = Append(@, msg), !.pc = "llm",
                            !.iteration = @ + 1, !.llmCalls = @ + 1]
             ELSE sendJson([c EXCEPT !.added = Append(@, msg)], 200,
                           [type |-> "final", response |-> MaxIterText])]
       /\ UNCHANGED <<pendingRequests, pendingTimestamps, issued,
                      nextRequestId, suspension>>

(* mutant: the final step leaves a suspended state behind *)
stepLoopFinalStores(h, response) ==
    LET c == [calls[h] EXCEPT !.provider = "ok", !.response = response]
        msg == assistantMessage(response)
    IN /\ sessionMemories' = addMessage(sessionMemories, c.memory, msg)
       /\ calls' = [calls EXCEPT ![h] =
             sendJson([c EXCEPT !.added = Append(@, msg)], 200,
                      [type |-> "final", response |-> response.content])]
       /\ pendingRequests' =
             [r \in DOMAIN pendingRequests \cup {randomUUID} |->
                 IF r = randomUUID
                 THEN [memory |-> c.memory, toolCalls |-> <<>>,
                       assistantContent |-> response.content,
                       iteration |-> c.iteration,
                       agentConfig |-> c.agentConfig]
                 ELSE pendingRequests[r]]
       /\ UNCHANGED <<pendingTimestamps, issued, nextRequestId, suspension>>

(* stepLoop after the provider answered without tool calls: final *)
stepLoopFinal(h, response) ==
    LET c == [calls[h] EXCEPT !.provider = "ok", !.response = response]
        msg == assistantMessage(response)
    IN /\ sessionMemories' = addMessage(sessionMemories, c.memory, msg)
       /\ calls' = [calls EXCEPT ![h] =
             sendJson([c EXCEPT !.added = Append(@, msg)], 200,
                      [type |-> "final", response |-> response.content])]
       /\ UNCHANGED <<pendingRequests, pendingTimestamps, issued,
                      nextRequestId, suspension>>

(* mutant: the error of the handler is swallowed and nothing is sent *)
serverCatchSilent(h, errorMessage) ==
    /\ calls' = [calls EXCEPT ![h].provider = "error", ![h].pc = "failed"]
    /\ UNCHANGED <<sessionMemories, pendingRequests, pendingTimestamps,
                   issued, nextRequestId, suspension>>

(* the catch of createServer: the error of the handler becomes a 500 *)
serverCatch(h, errorMessage) ==
    /\ calls' = [calls EXCEPT ![h] =
                    sendJson([calls[h] EXCEPT !.provider = "error"], 500,
                             [error |-> errorMessage])]
    /\ UNCHANGED <<sessionMemories, pendingRequests, pendingTimestamps,
                   issued, nextRequestId, suspension>>

----------------------------------------------------------------------------
(* mutant: the 404 branch does not return and the handler throws *)
notFoundThrows(kind, requestId) ==
    sendJson([NewCall(kind) EXCEPT !.requestId = requestId], 500,
             [error |-> "Cannot read properties of undefined"])

(* the 404 of handleApprove and handleReject *)
notFound(kind, requestId) ==
    sendJson([NewCall(kind) EXCEPT !.requestId = requestId], 404,
             [error |-> "Unknown or expired requestId"])

(* mutant: the entry is never deleted *)
mapKeep(m, key) == m

(* Map.delete *)
mapDelete(m, key) == [r \in DOMAIN m \ {key} |-> m[r]]

(* POST /api/chat, up to the first await of its stepLoop *)
handleChat(h, body) ==
    /\ Accepts(h)
    /\ nreq' = nreq + 1
    /\ UNCHANGED <<now, nextToolId, execLog, pendingRequests,
                   pendingTimestamps, issued, nextRequestId, suspension>>
    /\ UNCHANGED <<codecVars, bootVars, uiVars>>
    /\ IF \/ body = NullBody
          \/ typeof(body, "message") # "string"
          \/ IsBlank(body.message)
       THEN /\ calls' = [calls EXCEPT ![h] =
                   sendJson(NewCall("chat"), 400,
                            [error |-> "Missing or empty \"message\" field"])]
            /\ UNCHANGED sessionMemories
            /\ countCall(h, 0)
       ELSE LET sessionId == IF "sessionId" \in DOMAIN body
                                /\ body.sessionId # ""
                             THEN body.sessionId ELSE "default"
                msg == userMessage(body.message)
                c == [NewCall("chat") EXCEPT !.memory = sessionId,
                                             !.message = body.message,
                                             !.added = <<msg>>]
            IN /\ sessionMemories' =
                    addMessage(getMemory(sessionMemories, sessionId),
                               sessionId, msg)
               /\ stepLoop(h, c, 0)
               /\ countCall(h, 0)

(* POST /api/chat/approve, up to its first await *)
handleApprove(h, body) ==
    /\ Accepts(h)
    /\ nreq' = nreq + 1
    /\ UNCHANGED <<now, nextToolId, issued, nextRequestId, sessionMemories,
                   suspension>>
    /\ UNCHANGED <<codecVars, bootVars, uiVars>>
    /\ IF body = NullBody \/ typeof(body, "requestId") # "string"
       THEN /\ calls' = [calls EXCEPT ![h] =
                   sendJson(NewCall("approve"), 400,
                            [error |-> "Missing \"requestId\" field"])]
            /\ UNCHANGED <<pendingRequests, pendingTimestamps, execLog>>
            /\ countCall(h, 0)
       ELSE IF body.requestId \notin DOMAIN pendingRequests
       THEN /\ calls' = [calls EXCEPT ![h] =
                                notFound("approve", body.requestId)]
            /\ UNCHANGED <<pendingRequests, pendingTimestamps, execLog>>
            /\ countCall(h, 0)
       ELSE LET pending == pendingRequests[body.requestId]
                c == [NewCall("approve") EXCEPT
                         !.requestId = body.requestId,
                         !.memory = pending.memory,
                         !.toolCalls = pending.toolCalls,
                         !.agentConfig = pending.agentConfig,
                         !.iteration = pending.iteration]
            IN /\ pendingRequests' = mapDelete(pendingRequests, body.requestId)
               /\ pendingTimestamps' =
                     mapDelete(pendingTimestamps, body.requestId)
               /\ IF Len(pending.toolCalls) > 0
                  THEN /\ calls' = [calls EXCEPT ![h] =
                              [c EXCEPT !.pc = "exec", !.k = 1]]
                       /\ execLog' =
                              Append(execLog, execEntry(c, pending.toolCalls[1]))
                       /\ countCall(h, suspension[body.requestId].calls)
                  ELSE /\ stepLoop(h, c, pending.iteration)
                       /\ countCall(h, suspension[body.requestId].calls)
                       /\ UNCHANGED execLog

(* handleApprove, from the return of toolRegistry.execute to its next await *)
executeReturn(h, toolResult) ==
    /\ calls[h].pc = "exec"
    /\ UNCHANGED <<now, nextToolId, issued, nextRequestId, nreq,
                   pendingRequests, pendingTimestamps, suspension>>
    /\ UNCHANGED <<codecVars, bootVars, uiVars>>
    /\ LET c == calls[h]
           toolCall == c.toolCalls[c.k]
           msg == toolResultMessage(toolCall, toolResult)
           c1 == [c EXCEPT !.added = Append(@, msg),
                           !.results = Append(@, toolResult)]
       IN /\ sessionMemories' = addMessage(sessionMemories, c.memory, msg)
          /\ IF c.k < Len(c.toolCalls)
             THEN /\ calls' = [calls EXCEPT ![h] = [c1 EXCEPT !.k = c.k + 1]]
                  /\ execLog' =
                        Append(execLog, execEntry(c, c.toolCalls[c.k + 1]))
                  /\ UNCHANGED chainCalls
             ELSE /\ stepLoop(h, c1, c.iteration)
                  /\ countCall(h, chainCalls[h])
                  /\ UNCHANGED execLog

(* mutant: a reject that runs the pending tools like an approve *)
handleRejectRunsTools(h, body) ==
    /\ Accepts(h)
    /\ nreq' = nreq + 1
    /\ UNCHANGED <<now, nextToolId, issued, nextRequestId, sessionMemories,
                   suspension>>
    /\ UNCHANGED <<codecVars, bootVars, uiVars>>
    /\ "requestId" \in DOMAIN body
    /\ body.requestId \in DOMAIN pendingRequests
    /\ LET pending == pendingRequests[body.requestId]
           c == [NewCall("reject") EXCEPT
                    !.requestId = body.requestId,
                    !.memory = pending.memory,
                    !.toolCalls = pending.toolCalls,
                    !.agentConfig = pending.agentConfig,
                    !.iteration = pending.iteration]
       IN /\ pendingRequests' = mapDelete(pendingRequests, body.requestId)
          /\ pendingTimestamps' = mapDelete(pendingTimestamps, body.requestId)
          /\ calls' = [calls EXCEPT ![h] = [c EXCEPT !.pc = "exec", !.k = 1]]
          /\ countCall(h, suspension[body.requestId].calls)
          /\ execLog' = Append(execLog, execEntry(c, pending.toolCalls[1]))

(* POST /api/chat/reject, up to its first await *)
handleReject(h, body) ==
    /\ Accepts(h)
    /\ nreq' = nreq + 1
    /\ UNCHANGED <<now, nextToolId, issued, nextRequestId, execLog, suspension>>
    /\ UNCHANGED <<codecVars, bootVars, uiVars>>
    /\ IF body = NullBody \/ typeof(body, "requestId") # "string"
       THEN /\ calls' = [calls EXCEPT ![h] =
                   sendJson(NewCall("reject"), 400,
                            [error |-> "Missing \"requestId\" field"])]
            /\ UNCHANGED <<pendingRequests, pendingTimestamps,
                           sessionMemories>>
            /\ countCall(h, 0)
       ELSE IF body.requestId \notin DOMAIN pendingRequests
       THEN /\ calls' = [calls EXCEPT ![h] =
                                notFound("reject", body.requestId)]
            /\ UNCHANGED <<pendingRequests, pendingTimestamps,
                           sessionMemories>>
            /\ countCall(h, 0)
       ELSE LET pending == pendingRequests[body.requestId]
                msgs == rejectionMessages(pending.toolCalls)
                c == [NewCall("reject") EXCEPT
                         !.requestId = body.requestId,
                         !.memory = pending.memory,
                         !.toolCalls = pending.toolCalls,
                         !.agentConfig = pending.agentConfig,
                         !.iteration = pending.iteration,
                         !.added = msgs]
            IN /\ pendingRequests' = mapDelete(pendingRequests, body.requestId)
               /\ pendingTimestamps' =
                     mapDelete(pendingTimestamps, body.requestId)
               /\ sessionMemories' =
                     addMessages(sessionMemories, pending.memory, msgs)
               /\ stepLoop(h, c, pending.iteration)
               /\ countCall(h, suspension[body.requestId].calls)

(* stepLoop, from the return of providerManager.complete to its return *)
completeReturn(h, response) ==
    /\ calls[h].pc = "llm"
    /\ UNCHANGED <<now, execLog, nreq, chainCalls>>
    /\ UNCHANGED <<codecVars, bootVars, uiVars>>
    /\ nextToolId' = nextToolId + (IF "toolCalls" \in DOMAIN response
                                   THEN Len(response.toolCalls) ELSE 0)
    /\ IF hasToolCalls(response)
       THEN stepLoopPause(h, response)
       ELSE stepLoopFinal(h, response)

(* mutant: the failed provider call is tried again *)
completeThrowRetry(h) ==
    /\ calls[h].pc = "llm"
    /\ calls[h].llmCalls < 2
    /\ calls' = [calls EXCEPT ![h].llmCalls = @ + 1, ![h].provider = "error"]
    /\ countCall(h, chainCalls[h])
    /\ UNCHANGED <<now, execLog, nreq, nextToolId, sessionMemories,
                   pendingRequests, pendingTimestamps, issued, nextRequestId,
                   suspension>>
    /\ UNCHANGED <<codecVars, bootVars, uiVars>>

(* providerManager.complete throws: the handler ends in createServer's catch *)
completeThrow(h) ==
    /\ calls[h].pc = "llm"
    /\ UNCHANGED <<now, execLog, nreq, nextToolId, chainCalls>>
    /\ UNCHANGED <<codecVars, bootVars, uiVars>>
    /\ serverCatch(h, "provider error")

(* mutant: the sweep forgets the timestamps and keeps the states *)
cleanupStaleKeepsState ==
    LET stale == {id \in DOMAIN pendingTimestamps :
                     now - pendingTimestamps[id] > PENDING_TTL_MS}
    IN /\ pendingTimestamps' =
             [r \in DOMAIN pendingTimestamps \ stale |-> pendingTimestamps[r]]
       /\ UNCHANGED <<sessionMemories, now, calls, nextRequestId, nextToolId,
                      issued, execLog, nreq, chainCalls, suspension,
                      pendingRequests>>
       /\ UNCHANGED <<codecVars, bootVars, uiVars>>

(* mutant: an entry is stale from the age of the TTL on *)
cleanupStaleAtTtl ==
    LET stale == {id \in DOMAIN pendingTimestamps :
                     now - pendingTimestamps[id] >= PENDING_TTL_MS}
    IN /\ pendingRequests' =
             [r \in DOMAIN pendingRequests \ stale |-> pendingRequests[r]]
       /\ pendingTimestamps' =
             [r \in DOMAIN pendingTimestamps \ stale |-> pendingTimestamps[r]]
       /\ UNCHANGED <<sessionMemories, now, calls, nextRequestId, nextToolId,
                      issued, execLog, nreq, chainCalls, suspension>>
       /\ UNCHANGED <<codecVars, bootVars, uiVars>>

(* The periodic sweep of the pending store *)
cleanupStale ==
    LET stale == {id \in DOMAIN pendingTimestamps :
                     now - pendingTimestamps[id] > PENDING_TTL_MS}
    IN /\ pendingRequests' =
             [r \in DOMAIN pendingRequests \ stale |-> pendingRequests[r]]
       /\ pendingTimestamps' =
             [r \in DOMAIN pendingTimestamps \ stale |-> pendingTimestamps[r]]
       /\ UNCHANGED <<sessionMemories, now, calls, nextRequestId, nextToolId,
                      issued, execLog, nreq, chainCalls, suspension>>
       /\ UNCHANGED <<codecVars, bootVars, uiVars>>

(* Date.now() moves on *)
Tick(ms) ==
    /\ DOMAIN pendingTimestamps # {}     \* only ages of entries are read
    /\ now' = now + ms
    /\ UNCHANGED <<sessionMemories, pendingRequests, pendingTimestamps, calls,
                   nextRequestId, nextToolId, issued, execLog, nreq,
                   chainCalls, suspension>>
    /\ UNCHANGED <<codecVars, bootVars, uiVars>>

(* A response of the request callback that no handler is called for *)
respond(h, kind, statusCode, body) ==
    /\ Accepts(h)
    /\ nreq' = nreq + 1
    /\ calls' = [calls EXCEPT ![h] = sendJson(NewCall(kind), statusCode, body)]
    /\ countCall(h, 0)
    /\ UNCHANGED <<sessionMemories, pendingRequests, pendingTimestamps, now,
                   nextRequestId, nextToolId, issued, execLog, suspension>>
    /\ UNCHANGED <<codecVars, bootVars, uiVars>>

(* The request callback of createServer, up to the first await of the      *)
(* handler it calls                                                        *)
request(h, req) ==
    IF req.method = "OPTIONS"
    THEN respond(h, "options", 204, <<>>)
    ELSE IF req.url = "/api/health" /\ req.method = "GET"
    THEN respond(h, "health", 200, [status |-> "ok"])
    ELSE IF /\ req.method = "POST"
            /\ req.url \in {"/api/chat", "/api/chat/approve",
                            "/api/chat/reject"}
    THEN IF ~includesJson(req.contentType)
         THEN respond(h, "unsupported", 415,
                      [error |-> "Content-Type must be application/json"])
         ELSE IF req.url = "/api/chat" THEN handleChat(h, req.body)
         ELSE IF req.url = "/api/chat/approve" THEN handleApprove(h, req.body)
         ELSE handleReject(h, req.body)
    ELSE respond(h, "other", 404, [error |-> "Not found"])

----------------------------------------------------------------------------
(* AnthropicProvider (src/providers/base.ts).  An emitted message keeps in *)
(* isArray whether its content is a block list or a string.                *)

textBlock(text) == [type |-> "text", text |-> text]

(* mutant: arguments that do not parse are passed on raw *)
toolUseBlockRaw(tc) ==
    LET fn == tc.function
        toolName == IF fn.name # "" THEN fn.name ELSE "unknown"
    IN [type |-> "tool_use", id |-> tc.id, name |-> toolName,
        input |-> safeParseToolArgs(fn.arguments)]

toolUseBlock(tc) ==
    LET fn == tc.function
        toolName == IF fn.name # "" THEN fn.name ELSE "unknown"
        toolInput == IF fn.arguments # ""
                     THEN IF fn.arguments \in DOMAIN JsonParse
                          THEN JsonParse[fn.arguments]
                          ELSE EmptyObject
                     ELSE EmptyObject     \* a canonical call has no input
    IN [type |-> "tool_use", id |-> tc.id, name |-> toolName,
        input |-> toolInput]

toolResultBlock(m) ==
    [type |-> "tool_result", tool_use_id |-> m.tool_call_id,
     content |-> m.content]

(* mutant: a tool result is emitted under the role of its message *)
formatMessageKeepsRole(result, m) ==
    IF m.role = "assistant" /\ "tool_calls" \in DOMAIN m
          /\ Len(m.tool_calls) > 0
    THEN Append(result,
            [role |-> "assistant", isArray |-> TRUE,
             content |->
                (IF m.content # "" THEN <<textBlock(m.content)>> ELSE <<>>)
                \o [i \in 1..Len(m.tool_calls) |->
                       toolUseBlock(m.tool_calls[i])]])
    ELSE IF m.role = "tool"
    THEN IF /\ Len(result) > 0
            /\ result[Len(result)].role = "tool"
            /\ result[Len(result)].isArray
            /\ \A b \in 1..Len(result[Len(result)].content) :
                  result[Len(result)].content[b].type = "tool_result"
         THEN [result EXCEPT ![Len(result)].content =
                                 Append(@, toolResultBlock(m))]
         ELSE Append(result, [role |-> "tool", isArray |-> TRUE,
                              content |-> <<toolResultBlock(m)>>])
    ELSE IF m.role = "assistant"
    THEN Append(result, [role |-> "assistant", isArray |-> FALSE,
                         content |-> m.content])
    ELSE Append(result, [role |-> "user", isArray |-> FALSE,
                         content |-> m.content])

(* mutant: a tool result always gets a message of its own *)
formatMessageNoMerge(result, m) ==
    IF m.role = "assistant" /\ "tool_calls" \in DOMAIN m
          /\ Len(m.tool_calls) > 0
    THEN Append(result,
            [role |-> "assistant", isArray |-> TRUE,
             content |->
                (IF m.content # "" THEN <<textBlock(m.content)>> ELSE <<>>)
                \o [i \in 1..Len(m.tool_calls) |->
                       toolUseBlock(m.tool_calls[i])]])
    ELSE IF m.role = "tool"
    THEN Append(result, [role |-> "user", isArray |-> TRUE,
                         content |-> <<toolResultBlock(m)>>])
    ELSE IF m.role = "assistant"
    THEN Append(result, [role |-> "assistant", isArray |-> FALSE,
                         content |-> m.content])
    ELSE Append(result, [role |-> "user", isArray |-> FALSE,
                         content |-> m.content])

(* The body of the loop of formatAnthropicMessages: result after message m *)
formatMessage(result, m) ==
    IF m.role = "assistant" /\ "tool_calls" \in DOMAIN m
          /\ Len(m.tool_calls) > 0
    THEN Append(result,
            [role |-> "assistant", isArray |-> TRUE,
             content |->
                (IF m.content # "" THEN <<textBlock(m.content)>> ELSE <<>>)
                \o [i \in 1..Len(m.tool_calls) |->
                       toolUseBlock(m.tool_calls[i])]])
    ELSE IF m.role = "tool"
    THEN IF /\ Len(result) > 0
            /\ result[Len(result)].role = "user"
            /\ result[Len(result)].isArray
            /\ \A b \in 1..Len(result[Len(result)].content) :
                  result[Len(result)].content[b].type = "tool_result"
         THEN [result EXCEPT ![Len(result)].content =
                                 Append(@, toolResultBlock(m))]
         ELSE Append(result, [role |-> "user", isArray |-> TRUE,
                              content |-> <<toolResultBlock(m)>>])
    ELSE IF m.role = "assistant"
    THEN Append(result, [role |-> "assistant", isArray |-> FALSE,
                         content |-> m.content])
    ELSE Append(result, [role |-> "user", isArray |-> FALSE,
                         content |-> m.content])

RECURSIVE formatFrom(_, _, _)
formatFrom(result, msgs, i) ==
    IF i > Len(msgs) THEN result
    ELSE formatFrom(formatMessage(result, msgs[i]), msgs, i + 1)

formatAnthropicMessages(msgs) == formatFrom(<<>>, msgs, 1)

(* messages.find(m => m.role === 'system')?.content || '' *)
systemMessage(msgs) ==
    LET sys == SelectSeq(msgs, LAMBDA m : m.role = "system")
    IN IF Len(sys) > 0 THEN sys[1].content ELSE ""

(* mutant: the system message stays in the sequence *)
nonSystemMessagesAll(msgs) == msgs

nonSystemMessages(msgs) == SelectSeq(msgs, LAMBDA m : m.role # "system")

(* mutant: the texts are joined without a separator *)
RECURSIVE joinLinesTight(_)
joinLinesTight(textParts) ==
    IF Len(textParts) = 0 THEN ""
    ELSE textParts[1] \o joinLinesTight(Tail(textParts))

(* textParts.join('\n') *)
RECURSIVE joinLines(_)
joinLines(textParts) ==
    IF Len(textParts) = 0 THEN ""
    ELSE IF Len(textParts) = 1 THEN textParts[1]
    ELSE textParts[1] \o "\n" \o joinLines(Tail(textParts))

(* An object literal without properties *)
NoFields == [f \in {} |-> ""]

(* One tool_use block of the answer as a canonical tool call *)
toolCallOfBlock(block) ==
    ToolCallOf(block.id, block.name, JsonStringify(block.input))

(* The LLMResponse complete makes of response.data *)
decodeResponse(data) ==
    LET texts == SelectSeq(data.content, LAMBDA b : b.type = "text")
        uses == SelectSeq(data.content, LAMBDA b : b.type = "tool_use")
        textParts == [i \in 1..Len(texts) |-> texts[i].text]
        toolUseBlocks == [i \in 1..Len(uses) |-> toolCallOfBlock(uses[i])]
        usage == IF "usage" \in DOMAIN data
                 THEN [usage |->
                          [promptTokens |-> data.usage.input_tokens,
                           completionTokens |-> data.usage.output_tokens,
                           totalTokens |-> data.usage.input_tokens
                                              + data.usage.output_tokens]]
                 ELSE NoFields
    IN (IF Len(toolUseBlocks) > 0
        THEN [content |-> joinLines(textParts), toolCalls |-> toolUseBlocks,
              finishReason |-> data.stop_reason]
        ELSE [content |-> joinLines(textParts),
              finishReason |-> data.stop_reason]) @@ usage

(* complete, up to the post of the request *)
anthropicRequest ==
    /\ codecPc = "call"
    /\ requestData' =
          (LET anthropicMessages ==
                  formatAnthropicMessages(nonSystemMessages(messages))
           IN IF systemMessage(messages) # ""
              THEN [messages |-> anthropicMessages,
                    system |-> systemMessage(messages)]
              ELSE [messages |-> anthropicMessages])
    /\ codecPc' = "posted"
    /\ UNCHANGED <<messages, responseData, llmResponse, echoed, vendor,
                   postError, thrown>>
    /\ UNCHANGED <<serverVars, bootVars, uiVars>>

(* The vendor of the model answers with the content of the i-th message it *)
(* was sent, an assistant message: the text and the tool_use blocks        *)
anthropicAnswer(i) ==
    /\ codecPc = "posted"
    /\ requestData.messages[i].role = "assistant"
    /\ LET m == requestData.messages[i]
           content == IF m.isArray THEN m.content
                      ELSE IF m.content # "" THEN <<textBlock(m.content)>>
                      ELSE <<>>
       IN responseData' =
             [content |-> content,
              stop_reason |-> IF m.isArray THEN "tool_use" ELSE "end_turn"]
    /\ echoed' = i
    /\ codecPc' = "answered"
    /\ UNCHANGED <<messages, requestData, llmResponse, vendor, postError,
                   thrown>>
    /\ UNCHANGED <<serverVars, bootVars, uiVars>>

(* The vendor says more: the same content between two text blocks of its   *)
(* own                                                                     *)
anthropicAnswerMore(i) ==
    /\ codecPc = "posted"
    /\ requestData.messages[i].role = "assistant"
    /\ LET m == requestData.messages[i]
           content == IF m.isArray THEN m.content
                      ELSE IF m.content # "" THEN <<textBlock(m.content)>>
                      ELSE <<>>
       IN responseData' =
             [content |-> <<textBlock("One moment.")>> \o content
                             \o <<textBlock("Done.")>>,
              stop_reason |-> IF m.isArray THEN "tool_use" ELSE "end_turn"]
    /\ echoed' = i
    /\ codecPc' = "answered"
    /\ UNCHANGED <<messages, requestData, llmResponse, vendor, postError,
                   thrown>>
    /\ UNCHANGED <<serverVars, bootVars, uiVars>>

(* No error: complete has caught nothing, complete throws nothing *)
NoError == [name |-> "none", isAxiosError |-> FALSE, message |-> ""]

AxiosError(message) ==
    [name |-> "AxiosError", isAxiosError |-> TRUE, message |-> message]

TypeError(message) ==
    [name |-> "TypeError", isAxiosError |-> FALSE, message |-> message]

ProviderError(message) == [name |-> "ProviderError", message |-> message]

(* The name of the adapter in its error messages *)
vendorLabel(v) ==
    IF v = "anthropic" THEN "Anthropic"
    ELSE IF v = "openai" THEN "OpenAI" ELSE "OpenRouter"

(* error.response?.data?.error?.message; "" stands for undefined *)
vendorErrorMessage(error) ==
    IF /\ "response" \in DOMAIN error
       /\ "error" \in DOMAIN error.response.data
       /\ "message" \in DOMAIN error.response.data.error
    THEN error.response.data.error.message
    ELSE ""

(* mutant: the catch throws the error on as it caught it *)
completeCatchRethrows(label, error) ==
    [name |-> error.name, message |-> error.message]

(* The catch of complete: what it throws for the error it caught *)
completeCatch(label, error) ==
    IF error.isAxiosError
    THEN ProviderError(label \o " API error: "
            \o (IF vendorErrorMessage(error) # ""
                THEN vendorErrorMessage(error) ELSE error.message))
    ELSE ProviderError(label \o " API error: " \o error.message)

(* complete, from the vendor's answer to its return; an answer without     *)
(* content blocks throws in the for loop and ends in the catch             *)
anthropicReturn ==
    /\ codecPc = "answered"
    /\ vendor = "anthropic"
    /\ IF "content" \in DOMAIN responseData
       THEN /\ llmResponse' = decodeResponse(responseData)
            /\ codecPc' = "returned"
            /\ UNCHANGED <<postError, thrown>>
       ELSE /\ postError' = TypeError("contentBlocks is not iterable")
            /\ thrown' = completeCatch(vendorLabel(vendor), postError')
            /\ codecPc' = "thrown"
            /\ UNCHANGED llmResponse
    /\ UNCHANGED <<messages, requestData, responseData, echoed, vendor>>
    /\ UNCHANGED <<serverVars, bootVars, uiVars>>

(* One message of the request of OpenAIProvider and OpenRouterProvider *)
flatMessage(m) ==
    [role |-> m.role, content |-> m.content]
       @@ (IF "name" \in DOMAIN m /\ m.name # ""
           THEN [name |-> m.name] ELSE NoFields)
       @@ (IF "tool_calls" \in DOMAIN m
           THEN [tool_calls |-> m.tool_calls] ELSE NoFields)
       @@ (IF "tool_call_id" \in DOMAIN m /\ m.tool_call_id # 0
           THEN [tool_call_id |-> m.tool_call_id] ELSE NoFields)

(* OpenAIProvider.complete and OpenRouterProvider.complete, up to the post *)
openaiRequest ==
    /\ codecPc = "call"
    /\ vendor \in {"openai", "openrouter"}
    /\ requestData' =
          [messages |-> [i \in 1..Len(messages) |-> flatMessage(messages[i])]]
    /\ codecPc' = "posted"
    /\ UNCHANGED <<messages, responseData, llmResponse, echoed, vendor,
                   postError, thrown>>
    /\ UNCHANGED <<serverVars, bootVars, uiVars>>

(* The LLMResponse the two adapters make of response.data *)
decodeChatCompletion(data) ==
    LET choice == data.choices[1]
        message == choice.message
        usage == data.usage
    IN [content |-> IF "content" \in DOMAIN message THEN message.content
                    ELSE "",                     \* message.content || ''
        finishReason |-> choice.finish_reason]
          @@ (IF "tool_calls" \in DOMAIN message
              THEN [toolCalls |-> message.tool_calls] ELSE NoFields)
          @@ (IF "usage" \in DOMAIN data
              THEN [usage |->
                      [promptTokens |-> usage.prompt_tokens,
                       completionTokens |-> usage.completion_tokens]
                         @@ (IF "total_tokens" \in DOMAIN usage
                             THEN [totalTokens |-> usage.total_tokens]
                             ELSE NoFields)]
              ELSE NoFields)

(* OpenAIProvider.complete and OpenRouterProvider.complete, from the       *)
(* vendor's answer to the return; an answer without a choice throws at     *)
(* choice.message and ends in the catch                                    *)
openaiReturn ==
    /\ codecPc = "answered"
    /\ vendor \in {"openai", "openrouter"}
    /\ IF Len(responseData.choices) > 0
       THEN /\ llmResponse' = decodeChatCompletion(responseData)
            /\ codecPc' = "returned"
            /\ UNCHANGED <<postError, thrown>>
       ELSE /\ postError' = TypeError(
                   "Cannot read properties of undefined (reading 'message')")
            /\ thrown' = completeCatch(vendorLabel(vendor), postError')
            /\ codecPc' = "thrown"
            /\ UNCHANGED llmResponse
    /\ UNCHANGED <<messages, requestData, responseData, echoed, vendor>>
    /\ UNCHANGED <<serverVars, bootVars, uiVars>>

(* The post resolves: the vendor answered with a 2xx status and data *)
postResolves(data) ==
    /\ codecPc = "posted"
    /\ responseData' = data
    /\ codecPc' = "answered"
    /\ UNCHANGED <<messages, requestData, llmResponse, echoed, vendor,
                   postError, thrown>>
    /\ UNCHANGED <<serverVars, bootVars, uiVars>>

(* The post rejects (no answer in 60 s, no connection, a status that is    *)
(* not 2xx): complete goes to its catch and throws                         *)
postRejects(error) ==
    /\ codecPc = "posted"
    /\ postError' = error
    /\ thrown' = completeCatch(vendorLabel(vendor), error)
    /\ codecPc' = "thrown"
    /\ UNCHANGED <<messages, requestData, responseData, llmResponse, echoed,
                   vendor>>
    /\ UNCHANGED <<serverVars, bootVars, uiVars>>

----------------------------------------------------------------------------
(* voice/web/app.js, the page of the voice UI.  ws is the readyState of    *)
(* the one socket connect() makes: "connecting", "open", "closing" (no     *)
(* longer OPEN, onclose not yet dispatched) and "closed".  startPc is the  *)
(* await startWebRTC is suspended at: "idle" before hello_ack,             *)
(* "getUserMedia", "gathering" (createOffer, setLocalDescription and       *)
(* waitForIceGathering), then "offered", "denied" or "failed".  A card is  *)
(* [requestId, approveBtn, rejectBtn], a button is [disabled].             *)

(* What sendMsg leaves in the messages sent: nothing unless the socket is  *)
(* open                                                                    *)
sendMsg(log, msg) == IF ws # "open" THEN log ELSE Append(log, msg)

startTalking ==
    /\ IF ~micStream \/ isRecording
       THEN UNCHANGED <<isRecording, agentSpeaking, sent>>
       ELSE /\ isRecording' = TRUE
            /\ agentSpeaking' = FALSE
            /\ sent' = sendMsg(IF agentSpeaking
                               THEN sendMsg(sent, [type |-> "stop_speaking"])
                               ELSE sent,
                               [type |-> "mic_start"])
    /\ UNCHANGED <<ws, pc, micStream, talkBtn, cards, startPc>>

stopTalking ==
    /\ IF ~isRecording
       THEN UNCHANGED <<isRecording, sent>>
       ELSE /\ isRecording' = FALSE
            /\ sent' = sendMsg(sent, [type |-> "mic_stop"])
    /\ UNCHANGED <<ws, pc, micStream, agentSpeaking, talkBtn, cards, startPc>>

(* mutant: the cleanup leaves the microphone stream *)
cleanupWebRTCKeepsMic ==
    /\ pc' = FALSE
    /\ isRecording' = FALSE
    /\ talkBtn' = [disabled |-> TRUE]
    /\ agentSpeaking' = FALSE
    /\ UNCHANGED micStream

cleanupWebRTC ==
    /\ pc' = FALSE
    /\ micStream' = FALSE
    /\ isRecording' = FALSE
    /\ talkBtn' = [disabled |-> TRUE]
    /\ agentSpeaking' = FALSE

(* The messages so far leave room for those of one more handler *)
CanSend == Len(sent) < MaxSent

(* ws.onopen *)
wsOnOpen ==
    /\ ws = "connecting"
    /\ ws' = "open"
    /\ sent' = Append(sent, [type |-> "hello"])
    /\ UNCHANGED <<pc, micStream, isRecording, agentSpeaking, talkBtn, cards,
                   startPc>>
    /\ UNCHANGED <<serverVars, codecVars, bootVars>>

(* The socket fails or the server closes it: readyState is no longer OPEN *)
wsLeavesOpen ==
    /\ ws \in {"connecting", "open"}
    /\ ws' = "closing"
    /\ UNCHANGED <<pc, micStream, isRecording, agentSpeaking, talkBtn, cards,
                   sent, startPc>>
    /\ UNCHANGED <<serverVars, codecVars, bootVars>>

(* ws.onclose *)
wsOnClose ==
    /\ ws = "closing"
    /\ ws' = "closed"
    /\ cleanupWebRTC
    /\ UNCHANGED <<cards, sent, startPc>>
    /\ UNCHANGED <<serverVars, codecVars, bootVars>>

(* handleMessage, hello_ack: startWebRTC up to the await of getUserMedia *)
helloAck ==
    /\ ws = "open"
    /\ startPc = "idle"
    /\ startPc' = "getUserMedia"
    /\ UNCHANGED <<ws, pc, micStream, isRecording, agentSpeaking, talkBtn,
                   cards, sent>>
    /\ UNCHANGED <<serverVars, codecVars, bootVars>>

(* startWebRTC: getUserMedia rejects *)
micDenied ==
    /\ startPc = "getUserMedia"
    /\ startPc' = "denied"
    /\ UNCHANGED <<ws, pc, micStream, isRecording, agentSpeaking, talkBtn,
                   cards, sent>>
    /\ UNCHANGED <<serverVars, codecVars, bootVars>>

(* startWebRTC, from the stream of getUserMedia to the await of createOffer *)
micGranted ==
    /\ startPc = "getUserMedia"
    /\ micStream' = TRUE
    /\ pc' = TRUE
    /\ startPc' = "gathering"
    /\ UNCHANGED <<ws, isRecording, agentSpeaking, talkBtn, cards, sent>>
    /\ UNCHANGED <<serverVars, codecVars, bootVars>>

(* startWebRTC, from the end of the ICE gathering on: the offer is sent;   *)
(* after a cleanup pc is null and the function throws                      *)
offerReady ==
    /\ startPc = "gathering"
    /\ CanSend
    /\ IF pc
       THEN /\ sent' = sendMsg(sent, [type |-> "webrtc_offer"])
            /\ startPc' = "offered"
       ELSE /\ startPc' = "failed"
            /\ UNCHANGED sent
    /\ UNCHANGED <<ws, pc, micStream, isRecording, agentSpeaking, talkBtn,
                   cards>>
    /\ UNCHANGED <<serverVars, codecVars, bootVars>>

(* pc.oniceconnectionstatechange, connected or completed *)
iceConnected ==
    /\ pc
    /\ startPc = "offered"
    /\ talkBtn' = [disabled |-> FALSE]
    /\ UNCHANGED <<ws, pc, micStream, isRecording, agentSpeaking, cards, sent,
                   startPc>>
    /\ UNCHANGED <<serverVars, codecVars, bootVars>>

(* pc.oniceconnectionstatechange, failed *)
iceFailed ==
    /\ pc
    /\ cleanupWebRTC
    /\ UNCHANGED <<ws, cards, sent, startPc>>
    /\ UNCHANGED <<serverVars, codecVars, bootVars>>

(* touchstart, and mousedown of the main button, on the talk button.  The  *)
(* handlers guard themselves: the events are let in whether or not the     *)
(* button is disabled.                                                     *)
talkBtnDown(ev) ==
    /\ CanSend
    /\ startTalking
    /\ UNCHANGED <<serverVars, codecVars, bootVars>>

(* touchend, touchcancel and mouseup on the talk button *)
talkBtnUp(ev) ==
    /\ CanSend
    /\ stopTalking
    /\ UNCHANGED <<serverVars, codecVars, bootVars>>

(* touchend on the document and mouseleave on the talk button *)
slideOff(ev) ==
    /\ CanSend
    /\ IF isRecording THEN stopTalking ELSE UNCHANGED uiVars
    /\ UNCHANGED <<serverVars, codecVars, bootVars>>

(* handleMessage, agent_reply *)
agentReply ==
    /\ ws = "open"
    /\ agentSpeaking' = TRUE
    /\ UNCHANGED <<ws, pc, micStream, isRecording, talkBtn, cards, sent,
                   startPc>>
    /\ UNCHANGED <<serverVars, codecVars, bootVars>>

(* The click on the stop button, which is hidden unless the agent speaks *)
stopBtnClick ==
    /\ agentSpeaking
    /\ CanSend
    /\ sent' = sendMsg(sent, [type |-> "stop_speaking"])
    /\ agentSpeaking' = FALSE
    /\ UNCHANGED <<ws, pc, micStream, isRecording, talkBtn, cards, startPc>>
    /\ UNCHANGED <<serverVars, codecVars, bootVars>>

(* handleMessage, tool_pending: showToolCard *)
showToolCard(requestId) ==
    /\ ws = "open"
    /\ cards' = Append(cards, [requestId |-> requestId,
                               approveBtn |-> [disabled |-> FALSE],
                               rejectBtn |-> [disabled |-> FALSE]])
    /\ UNCHANGED <<ws, pc, micStream, isRecording, agentSpeaking, talkBtn,
                   sent, startPc>>
    /\ UNCHANGED <<serverVars, codecVars, bootVars>>

(* mutant: the click disables only the button that was clicked *)
decideDisablesOne(card, type) ==
    IF type = "tool_approve"
    THEN [card EXCEPT !.approveBtn = [disabled |-> TRUE]]
    ELSE [card EXCEPT !.rejectBtn = [disabled |-> TRUE]]

(* The card after the click listener of either button *)
decide(card, type) ==
    [card EXCEPT !.approveBtn = [disabled |-> TRUE],
                 !.rejectBtn = [disabled |-> TRUE]]

(* The click on Approve of card k; a disabled button gets no click *)
approveClick(k) ==
    /\ ~cards[k].approveBtn.disabled
    /\ CanSend
    /\ cards' = [cards EXCEPT ![k] = decide(@, "tool_approve")]
    /\ sent' = sendMsg(sent, [type |-> "tool_approve",
                              requestId |-> cards[k].requestId])
    /\ UNCHANGED <<ws, pc, micStream, isRecording, agentSpeaking, talkBtn,
                   startPc>>
    /\ UNCHANGED <<serverVars, codecVars, bootVars>>

(* The click on Reject of card k *)
rejectClick(k) ==
    /\ ~cards[k].rejectBtn.disabled
    /\ CanSend
    /\ cards' = [cards EXCEPT ![k] = decide(@, "tool_reject")]
    /\ sent' = sendMsg(sent, [type |-> "tool_reject",
                              requestId |-> cards[k].requestId])
    /\ UNCHANGED <<ws, pc, micStream, isRecording, agentSpeaking, talkBtn,
                   startPc>>
    /\ UNCHANGED <<serverVars, codecVars, bootVars>>

----------------------------------------------------------------------------
(* docker/entrypoint.sh, run by bash with set -e.  A process is "none"     *)
(* before it is started, then "starting", "listening" (the API only),      *)
(* "running" (the voice server only), and "exited" or "killed".            *)

Alive(proc) == proc \in {"starting", "listening", "running"}

(* node /app/dist/cli/index.js serve --port 3001 &; NC_PID=$!; READY=0;    *)
(* the loop is entered with i = 1                                          *)
startApi ==
    /\ entryPc = "start"
    /\ api' = "starting"
    /\ READY' = 0
    /\ loopI' = 1
    /\ entryPc' = "curl"
    /\ UNCHANGED <<voice, exitStatus, attempts, successes, slept>>
    /\ UNCHANGED <<serverVars, codecVars, uiVars>>

(* The API server gets to listen on its port *)
apiListen ==
    /\ api = "starting"
    /\ api' = "listening"
    /\ UNCHANGED <<entryPc, loopI, READY, voice, exitStatus, attempts, successes,
                   slept>>
    /\ UNCHANGED <<serverVars, codecVars, uiVars>>

(* The API server process ends by itself *)
apiExit ==
    /\ Alive(api)
    /\ api' = "exited"
    /\ UNCHANGED <<entryPc, loopI, READY, voice, exitStatus, attempts, successes,
                   slept>>
    /\ UNCHANGED <<serverVars, codecVars, uiVars>>

(* curl -sf http://localhost:3001/api/health: it succeeds when the server  *)
(* answers 200, which a listening server does                              *)
curlHealth ==
    /\ entryPc = "curl"
    /\ attempts' = attempts + 1
    /\ IF api = "listening"
       THEN /\ READY' = 1
            /\ successes' = successes + 1
            /\ entryPc' = "check"               \* break
       ELSE /\ entryPc' = "sleep"
            /\ UNCHANGED <<READY, successes>>
    /\ UNCHANGED <<loopI, api, voice, exitStatus, slept>>
    /\ UNCHANGED <<serverVars, codecVars, uiVars>>

(* mutant: the loop goes on after the last value of seq *)
sleepOneTooMany ==
    /\ entryPc = "sleep"
    /\ slept' = slept + 1
    /\ IF loopI <= HEALTH_ATTEMPTS
       THEN loopI' = loopI + 1 /\ entryPc' = "curl"
       ELSE loopI' = loopI /\ entryPc' = "check"
    /\ UNCHANGED <<READY, api, voice, exitStatus, attempts, successes>>
    /\ UNCHANGED <<serverVars, codecVars, uiVars>>

(* sleep 1, and the next round of the loop if there is one *)
sleepOne ==
    /\ entryPc = "sleep"
    /\ slept' = slept + 1
    /\ IF loopI < HEALTH_ATTEMPTS
       THEN loopI' = loopI + 1 /\ entryPc' = "curl"
       ELSE loopI' = loopI /\ entryPc' = "check"
    /\ UNCHANGED <<READY, api, voice, exitStatus, attempts, successes>>
    /\ UNCHANGED <<serverVars, codecVars, uiVars>>

(* mutant: the voice server is started whatever READY is *)
checkReadyIgnored ==
    /\ entryPc = "check"
    /\ voice' = "running"
    /\ entryPc' = "wait"
    /\ UNCHANGED <<loopI, READY, api, exitStatus, attempts, successes, slept>>
    /\ UNCHANGED <<serverVars, codecVars, uiVars>>

(* if [ "$READY" -ne 1 ]: kill $NC_PID and exit 1 (when the process is     *)
(* gone already, kill fails with status 1 and set -e ends the script with  *)
(* that status); otherwise python -m voice &, the trap, and wait           *)
checkReady ==
    /\ entryPc = "check"
    /\ IF READY # 1
       THEN /\ api' = IF Alive(api) THEN "killed" ELSE api
            /\ exitStatus' = 1
            /\ entryPc' = "exited"
            /\ UNCHANGED voice
       ELSE /\ voice' = "running"
            /\ entryPc' = "wait"
            /\ UNCHANGED <<api, exitStatus>>
    /\ UNCHANGED <<loopI, READY, attempts, successes, slept>>
    /\ UNCHANGED <<serverVars, codecVars, uiVars>>

(* The voice server process ends by itself *)
voiceExit ==
    /\ voice = "running"
    /\ voice' = "exited"
    /\ UNCHANGED <<entryPc, loopI, READY, api, exitStatus, attempts, successes,
                   slept>>
    /\ UNCHANGED <<serverVars, codecVars, uiVars>>

(* SIGTERM or SIGINT during wait: the trap kills the children and waits    *)
(* for them; wait was interrupted by signal 15, and the script ends        *)
trapSignal ==
    /\ entryPc = "wait"
    /\ api' = IF Alive(api) THEN "killed" ELSE api
    /\ voice' = IF Alive(voice) THEN "killed" ELSE voice
    /\ exitStatus' = 128 + 15
    /\ entryPc' = "exited"
    /\ UNCHANGED <<loopI, READY, attempts, successes, slept>>
    /\ UNCHANGED <<serverVars, codecVars, uiVars>>

(* wait returns when both children have ended *)
waitReturns ==
    /\ entryPc = "wait"
    /\ ~Alive(api) /\ ~Alive(voice)
    /\ exitStatus' = 0
    /\ entryPc' = "exited"
    /\ UNCHANGED <<loopI, READY, api, voice, attempts, successes, slept>>
    /\ UNCHANGED <<serverVars, codecVars, uiVars>>

----------------------------------------------------------------------------
(* The inputs of the model *)

ValidArgs == "{\"cmd\":\"ls\"}"
MalformedArgs == "{bad"

FinalResponse(content) == [content |-> content, finishReason |-> "end_turn"]

ToolResponse(content, toolCalls) ==
    [content |-> content, toolCalls |-> toolCalls, finishReason |-> "tool_use"]

(* What the vendor may answer; n is the next tool-call id it mints *)
Responses(n) ==
    { FinalResponse("4"),
      ToolResponse("Let me check.",
                   <<ToolCallOf(n, "shell", ValidArgs),
                     ToolCallOf(n + 1, "write_file", MalformedArgs)>>) }

ChainResponses(n) ==
    { FinalResponse("Found a.txt"),
      ToolResponse("", <<ToolCallOf(n, "shell", ValidArgs)>>) }

(* What toolRegistry.execute may return *)
ToolResults ==
    { [success |-> TRUE, output |-> "a.txt", error |-> ""],
      [success |-> FALSE, output |-> "", error |-> "denied"] }

(* The executor of the model: the shell command succeeds, the file write   *)
(* succeeds or is denied                                                   *)
ToolResultsFor(toolCall) ==
    IF toolCall.function.name = "shell"
    THEN { [success |-> TRUE, output |-> "a.txt", error |-> ""] }
    ELSE ToolResults

ChainToolResults == { [success |-> TRUE, output |-> "a.txt", error |-> ""] }

ChatBodies ==
    { [message |-> "What is 2+2?", sessionId |-> "s1"],
      [message |-> "list files", sessionId |-> ""],
      [message |-> "  ", sessionId |-> "s1"] }

ChainChatBodies == { [message |-> "list files", sessionId |-> "s1"] }

(* requestIds a client may send: every id ever issued and one never issued *)
DecisionBodies ==
    { [requestId |-> r, sessionId |-> "s1"] :
         r \in DOMAIN issued \cup {nextRequestId} }

NoRequestIdBody == [sessionId |-> "s1"]

----------------------------------------------------------------------------
(* The page after app.js has run: connect() has made the socket, which is *)
(* connecting; nothing is recorded, shown or sent yet                      *)
InitUi ==
    /\ ws = "connecting"
    /\ pc = FALSE
    /\ micStream = FALSE
    /\ isRecording = FALSE
    /\ agentSpeaking = FALSE
    /\ talkBtn = [disabled |-> TRUE]
    /\ cards = <<>>
    /\ sent = <<>>
    /\ startPc = "idle"

(* The server after createServer, before its first request *)
InitServer ==
    /\ sessionMemories = [s \in {} |-> <<>>]
    /\ pendingRequests = [r \in {} |-> <<>>]
    /\ pendingTimestamps = [r \in {} |-> 0]
    /\ now = 0
    /\ calls = [h \in Handlers |-> IdleCall]
    /\ nextRequestId = 1
    /\ nextToolId = 1
    /\ issued = [r \in {} |-> <<>>]
    /\ execLog = <<>>
    /\ nreq = 0
    /\ chainCalls = [h \in Handlers |-> 0]
    /\ suspension = [r \in {} |-> <<>>]

(* No provider call is being encoded *)
InitCodecIdle ==
    /\ messages = <<>>
    /\ requestData = [messages |-> <<>>]
    /\ responseData = [content |-> <<>>, stop_reason |-> "none"]
    /\ llmResponse = NoResponse
    /\ echoed = 0
    /\ codecPc = "idle"
    /\ vendor = "anthropic"
    /\ postError = NoError
    /\ thrown = NoError

(* The entrypoint before its first command; no shell variable is set *)
InitBoot ==
    /\ entryPc = "start"
    /\ loopI = 0
    /\ READY = 0
    /\ api = "none"
    /\ voice = "none"
    /\ exitStatus = -1
    /\ attempts = 0
    /\ successes = 0
    /\ slept = 0

Init == InitServer /\ InitCodecIdle /\ InitBoot /\ InitUi

Next ==
    \/ \E h \in Handlers, body \in ChatBodies :
          nreq < MaxRequests /\ handleChat(h, body)
    \/ \E h \in Handlers, body \in DecisionBodies \cup {NoRequestIdBody} :
          nreq < MaxRequests /\ handleApprove(h, body)
    \/ \E h \in Handlers, body \in DecisionBodies \cup {NoRequestIdBody} :
          nreq < MaxRequests /\ handleReject(h, body)
    \/ \E h \in Handlers :
          /\ calls[h].pc = "exec"
          /\ \E toolResult \in ToolResultsFor(calls[h].toolCalls[calls[h].k]) :
                executeReturn(h, toolResult)
    \/ \E h \in Handlers : \E response \in Responses(nextToolId) :
          completeReturn(h, response)
    \/ \E h \in Handlers : completeThrow(h)
    \/ cleanupStale
    \/ now < StaleMs /\ Tick(StaleMs)

Spec == Init /\ [][Next]_vars

(* One session driven by one client that waits for each answer: the chain  *)
(* of one Start and the approvals and rejections that follow it.           *)
NextChain ==
    \/ \E body \in ChainChatBodies :
          body.sessionId \notin DOMAIN sessionMemories /\ handleChat(1, body)
    \/ \E r \in DOMAIN pendingRequests :
          handleApprove(1, [requestId |-> r, sessionId |-> "s1"])
    \/ \E r \in DOMAIN pendingRequests :
          handleReject(1, [requestId |-> r, sessionId |-> "s1"])
    \/ \E toolResult \in ChainToolResults : executeReturn(1, toolResult)
    \/ \E response \in ChainResponses(nextToolId) : completeReturn(1, response)
    \/ completeThrow(1)

SpecChain == Init /\ [][NextChain]_vars

(* The finish reasons of an LLMResponse *)
FinishReasons == {"end_turn", "tool_use", "max_tokens", "other"}

(* What a provider may answer when the finishReason is free of the tool    *)
(* calls: the list absent, empty or of one call, under every finishReason  *)
AnyResponses(n) ==
    { [content |-> "ok", finishReason |-> f] : f \in FinishReasons }
    \cup { [content |-> "ok", toolCalls |-> <<>>, finishReason |-> f] :
              f \in FinishReasons }
    \cup { [content |-> "ok",
             toolCalls |-> <<ToolCallOf(n, "shell", ValidArgs)>>,
             finishReason |-> f] : f \in FinishReasons }

(* One client that waits for each answer, with a provider whose            *)
(* finishReason is free of its tool calls                                  *)
NextDecide ==
    \/ \E body \in ChainChatBodies :
          nreq < MaxRequests /\ handleChat(1, body)
    \/ \E r \in DOMAIN pendingRequests :
          nreq < MaxRequests
             /\ handleApprove(1, [requestId |-> r, sessionId |-> "s1"])
    \/ \E r \in DOMAIN pendingRequests :
          nreq < MaxRequests
             /\ handleReject(1, [requestId |-> r, sessionId |-> "s1"])
    \/ \E toolResult \in ChainToolResults : executeReturn(1, toolResult)
    \/ \E response \in AnyResponses(nextToolId) : completeReturn(1, response)

SpecDecide == Init /\ [][NextDecide]_vars

(* The chain of SpecChain with the sweep, and the clock going past the TTL *)
(* of the entries minted so far                                            *)
NextStore ==
    \/ NextChain
    \/ cleanupStale
    \/ now < StaleMs /\ Tick(StaleMs)

SpecStore == Init /\ [][NextStore]_vars

(* The messages complete is called with: at most MaxMessages messages that *)
(* a session memory can hold, in any order, behind the system prompt or    *)
(* behind none                                                             *)
SpacedArgs == "{ \"cmd\": \"ls\" }"

SystemPrompt == [role |-> "system", content |-> "You are nano-claw."]

CanonicalMessages ==
    { userMessage("hi"),
      [role |-> "assistant", content |-> "ok"],
      [role |-> "assistant", content |-> "",
       tool_calls |-> <<ToolCallOf(1, "shell", ValidArgs)>>],
      [role |-> "assistant", content |-> "Let me check.",
       tool_calls |-> <<ToolCallOf(1, "shell", SpacedArgs),
                        ToolCallOf(2, "write_file", MalformedArgs)>>],
      [role |-> "assistant", content |-> "",
       tool_calls |-> <<ToolCallOf(2, "list_dir", "")>>],
      [role |-> "tool", content |-> "a.txt", name |-> "shell",
       tool_call_id |-> 1],
      [role |-> "tool", content |-> "Error: denied", name |-> "write_file",
       tool_call_id |-> 2] }

MessageLists ==
    { sys \o ms : sys \in {<<>>, <<SystemPrompt>>},
                  ms \in UNION {[1..k -> CanonicalMessages] :
                                   k \in 0..MaxMessages} }

InitAnthropic ==
    /\ InitServer
    /\ InitBoot
    /\ InitUi
    /\ messages \in MessageLists
    /\ requestData = [messages |-> <<>>]
    /\ responseData = [content |-> <<>>, stop_reason |-> "none"]
    /\ llmResponse = NoResponse
    /\ echoed = 0
    /\ codecPc = "call"
    /\ vendor = "anthropic"
    /\ postError = NoError
    /\ thrown = NoError

NextAnthropic ==
    \/ anthropicRequest
    \/ \E i \in 1..Len(requestData.messages) : anthropicAnswer(i)
    \/ \E i \in 1..Len(requestData.messages) : anthropicAnswerMore(i)
    \/ anthropicReturn

SpecAnthropic == InitAnthropic /\ [][NextAnthropic]_vars

(* The three adapters and what their vendors may do with a post.  A usage  *)
(* of 10 prompt and 5 completion tokens is reported, with the total, with  *)
(* the total left out (the vendors of the flat format only), or not at all *)
Vendors == {"anthropic", "openai", "openrouter"}

ProviderMessageLists ==
    { <<SystemPrompt, userMessage("hi")>>,
      <<userMessage("hi"),
        [role |-> "assistant", content |-> "",
         tool_calls |-> <<ToolCallOf(1, "shell", ValidArgs)>>],
        [role |-> "tool", content |-> "a.txt", name |-> "shell",
         tool_call_id |-> 1]>> }

AnthropicStopReasons == {"end_turn", "tool_use", "max_tokens", "refusal"}

OpenAIFinishReasons == {"stop", "tool_calls", "length", "content_filter"}

AnthropicAnswers ==
    { [content |-> c, stop_reason |-> r] @@ u :
         c \in { <<textBlock("4")>>,
                 <<textBlock("Let me check."),
                   [type |-> "tool_use", id |-> 2, name |-> "shell",
                    input |-> [cmd |-> "ls"]]>> },
         r \in AnthropicStopReasons,
         u \in { NoFields,
                 [usage |-> [input_tokens |-> 10, output_tokens |-> 5]] } }
    \cup { [type |-> "message"] }

ChatCompletions ==
    { [choices |-> <<[message |-> m, finish_reason |-> r]>>] @@ u :
         m \in { [role |-> "assistant", content |-> "4"],
                 [role |-> "assistant",
                  tool_calls |-> <<ToolCallOf(2, "shell", ValidArgs)>>] },
         r \in OpenAIFinishReasons,
         u \in { NoFields,
                 [usage |-> [prompt_tokens |-> 10, completion_tokens |-> 5,
                             total_tokens |-> 15]],
                 [usage |-> [prompt_tokens |-> 10,
                             completion_tokens |-> 5]] } }
    \cup { [choices |-> <<>>] }

VendorAnswers(v) == IF v = "anthropic" THEN AnthropicAnswers ELSE ChatCompletions

(* The errors the post rejects with: no answer within the timeout, no      *)
(* connection, and statuses that are not 2xx whose body has an error       *)
(* message, an error without a message, an empty message, no error object  *)
PostErrors ==
    { AxiosError("timeout of 60000ms exceeded"),
      AxiosError("Network Error"),
      AxiosError("Request failed with status code 429")
         @@ [response |->
               [status |-> 429,
                data |-> [error |-> [message |-> "Rate limit exceeded"]]]],
      AxiosError("Request failed with status code 500")
         @@ [response |->
               [status |-> 500, data |-> [error |-> [type |-> "api_error"]]]],
      AxiosError("Request failed with status code 401")
         @@ [response |->
               [status |-> 401, data |-> [error |-> [message |-> ""]]]],
      AxiosError("Request failed with status code 502")
         @@ [response |-> [status |-> 502, data |-> [html |-> "Bad Gateway"]]] }

InitProviders ==
    /\ InitServer
    /\ InitBoot
    /\ InitUi
    /\ messages \in ProviderMessageLists
    /\ vendor \in Vendors
    /\ requestData = [messages |-> <<>>]
    /\ responseData = [content |-> <<>>, stop_reason |-> "none"]
    /\ llmResponse = NoResponse
    /\ echoed = 0
    /\ codecPc = "call"
    /\ postError = NoError
    /\ thrown = NoError

NextProviders ==
    \/ vendor = "anthropic" /\ anthropicRequest
    \/ openaiRequest
    \/ \E data \in VendorAnswers(vendor) : postResolves(data)
    \/ \E error \in PostErrors : postRejects(error)
    \/ anthropicReturn
    \/ openaiReturn

SpecProviders == InitProviders /\ [][NextProviders]_vars

(* The page with its socket and the tool cards the server has it show, the *)
(* user clicking any button that is not disabled.  The server mints a      *)
(* requestId per suspension, so card k carries requestId k.                *)
NextCards ==
    \/ wsOnOpen
    \/ wsLeavesOpen
    \/ wsOnClose
    \/ Len(cards) < MaxCards /\ showToolCard(Len(cards) + 1)
    \/ \E k \in 1..Len(cards) : approveClick(k)
    \/ \E k \in 1..Len(cards) : rejectClick(k)

SpecCards == Init /\ [][NextCards]_vars

(* The page with its user at the talk button, its socket and its audio     *)
(* connection: every event in any order.                                   *)
NextMic ==
    \/ wsOnOpen
    \/ wsLeavesOpen
    \/ wsOnClose
    \/ helloAck
    \/ micDenied
    \/ micGranted
    \/ offerReady
    \/ iceConnected
    \/ iceFailed
    \/ \E ev \in {"touchstart", "mousedown"} : talkBtnDown(ev)
    \/ \E ev \in {"touchend", "touchcancel", "mouseup"} : talkBtnUp(ev)
    \/ \E ev \in {"document.touchend", "mouseleave"} : slideOff(ev)
    \/ agentReply
    \/ stopBtnClick

SpecMic == Init /\ [][NextMic]_vars

(* The instants the clock of SpecSweep shows: an entry is seen one ms      *)
(* younger than the TTL, at the TTL and one ms older                       *)
Instants == {0, 1, PENDING_TTL_MS, StaleMs}

(* One session, one client that waits for each answer and may decide on    *)
(* any requestId it was ever given and on one it was never given, the      *)
(* sweep, and the clock at Instants.                                       *)
NextSweep ==
    \/ \E body \in ChainChatBodies :
          nreq < MaxRequests /\ handleChat(1, body)
    \/ \E r \in DOMAIN issued \cup {nextRequestId} :
          /\ nreq < MaxRequests
          /\ handleApprove(1, [requestId |-> r, sessionId |-> "s1"])
    \/ \E r \in DOMAIN issued \cup {nextRequestId} :
          /\ nreq < MaxRequests
          /\ handleReject(1, [requestId |-> r, sessionId |-> "s1"])
    \/ \E toolResult \in ChainToolResults : executeReturn(1, toolResult)
    \/ \E response \in ChainResponses(nextToolId) : completeReturn(1, response)
    \/ cleanupStale
    \/ \E t \in Instants : t > now /\ Tick(t - now)

SpecSweep == Init /\ [][NextSweep]_vars

(* The clock of SpecAbandon.  It goes on to the next instant at which the  *)
(* youngest entry of the store has one of the ages of Instants; time that  *)
(* passes while the store is empty or holds stale entries only is not      *)
(* observed.                                                               *)
TickLive(age) ==
    \E id \in DOMAIN pendingTimestamps :
       /\ \A other \in DOMAIN pendingTimestamps :
             pendingTimestamps[other] <= pendingTimestamps[id]
       /\ age > now - pendingTimestamps[id]
       /\ Tick(pendingTimestamps[id] + age - now)

(* The server of SpecSweep with the interval timer of createServer firing  *)
(* the sweep again and again (setInterval(cleanupStale, 60_000)) and the   *)
(* clock going on: both are weakly fair.                                   *)
NextAbandon ==
    \/ \E body \in ChainChatBodies :
          nreq < MaxRequests /\ handleChat(1, body)
    \/ \E r \in DOMAIN issued :
          /\ nreq < MaxRequests
          /\ handleApprove(1, [requestId |-> r, sessionId |-> "s1"])
    \/ \E r \in DOMAIN issued :
          /\ nreq < MaxRequests
          /\ handleReject(1, [requestId |-> r, sessionId |-> "s1"])
    \/ \E toolResult \in ChainToolResults : executeReturn(1, toolResult)
    \/ \E response \in ChainResponses(nextToolId) : completeReturn(1, response)
    \/ cleanupStale
    \/ \E age \in Instants : TickLive(age)

SpecAbandon ==
    /\ Init /\ [][NextAbandon]_vars
    /\ WF_vars(cleanupStale)
    /\ WF_vars(\E age \in Instants : TickLive(age))

(* The requests of SpecHttp: the three POST routes with a content type     *)
(* that names JSON or one that does not (the empty one stands for a        *)
(* request without the header) and a body that passes the validation or    *)
(* fails it in one of its ways; the health check, a preflight and a path   *)
(* that is not served.                                                     *)
ContentTypes ==
    {"application/json", "application/json; charset=utf-8", "text/plain", ""}

HttpChatBodies ==
    { [message |-> "list files", sessionId |-> "s1"],
      [message |-> "  ", sessionId |-> "s1"],
      [message |-> 42, sessionId |-> "s1", typeof |-> [message |-> "number"]],
      [sessionId |-> "s1"],
      NullBody }

HttpDecisionBodies ==
    { [requestId |-> r] : r \in DOMAIN issued }
    \cup { [requestId |-> r, typeof |-> [requestId |-> "number"]] :
             r \in DOMAIN issued }
    \cup { [sessionId |-> "s1"], NullBody }

HttpRequests ==
    { [method |-> "POST", url |-> "/api/chat", contentType |-> ct,
       body |-> body] : ct \in ContentTypes, body \in HttpChatBodies }
    \cup { [method |-> "POST", url |-> url, contentType |-> ct,
            body |-> body] :
             url \in {"/api/chat/approve", "/api/chat/reject"},
             ct \in ContentTypes, body \in HttpDecisionBodies }
    \cup { [method |-> "GET", url |-> "/api/health", contentType |-> "",
            body |-> NullBody],
           [method |-> "OPTIONS", url |-> "/api/chat", contentType |-> "",
            body |-> NullBody],
           [method |-> "GET", url |-> "/", contentType |-> "",
            body |-> NullBody] }

NextHttp ==
    \/ \E h \in Handlers, req \in HttpRequests :
          nreq < MaxRequests /\ request(h, req)
    \/ \E h \in Handlers :
          /\ calls[h].pc = "exec"
          /\ \E toolResult \in ToolResultsFor(calls[h].toolCalls[calls[h].k]) :
                executeReturn(h, toolResult)
    \/ \E h \in Handlers : \E response \in Responses(nextToolId) :
          completeReturn(h, response)

SpecHttp == Init /\ [][NextHttp]_vars

(* The container from the start of its entrypoint *)
NextBoot ==
    \/ startApi
    \/ apiListen
    \/ apiExit
    \/ curlHealth
    \/ sleepOne
    \/ checkReady
    \/ voiceExit
    \/ trapSignal
    \/ waitReturns

SpecBoot == Init /\ [][NextBoot]_vars

(* The server with its awaits settling.  A handler suspended at            *)
(* toolRegistry.execute goes on when the tool has run; a handler suspended *)
(* at providerManager.complete goes on when the vendor has answered or the *)
(* call has failed, which the timeout of the HTTP client (60 s) forces     *)
(* when the vendor stays silent.  Node runs the continuation of a settled  *)
(* promise, so each of the two is weakly fair for every handler.           *)
NextLive ==
    \/ NextHttp
    \/ \E h \in Handlers : completeThrow(h)

Settles(h) ==
    /\ WF_vars(/\ calls[h].pc = "exec"
               /\ \E toolResult \in
                        ToolResultsFor(calls[h].toolCalls[calls[h].k]) :
                     executeReturn(h, toolResult))
    /\ WF_vars(\/ \E response \in Responses(nextToolId) :
                     completeReturn(h, response)
               \/ completeThrow(h))

SpecLive == Init /\ [][NextLive]_vars /\ \A h \in Handlers : Settles(h)

----------------------------------------------------------------------------
(* Helpers of the properties *)

Accepted(c) ==
    c.kind \in {"approve", "reject"} /\ c.pc # "idle" /\ c.status \notin {400, 404}

IsToolMessage(m) == m.role = "tool"

IsAssistantWith(m, toolCalls) ==
    m.role = "assistant" /\ "tool_calls" \in DOMAIN m /\ m.tool_calls = toolCalls

ExecsOf(requestId) == SelectSeq(execLog, LAMBDA e : e.requestId = requestId)

----------------------------------------------------------------------------
(* C1: the tool executor runs only inside an Approve of a requestId that   *)
(* was in the pending store, and only for the tool calls stored under that *)
(* requestId; a Start or a Reject never runs a tool.                       *)
C1_ApprovalGate ==
    /\ \A i \in 1..Len(execLog) :
          LET e == execLog[i] IN
          /\ e.kind = "approve"
          /\ e.requestId \in DOMAIN issued
          /\ \E j \in 1..Len(issued[e.requestId].toolCalls) :
                LET tc == issued[e.requestId].toolCalls[j] IN
                tc.id = e.id /\ tc.function.name = e.name
    /\ \A h \in Handlers :
          calls[h].pc = "exec" =>
             /\ calls[h].kind = "approve"
             /\ calls[h].requestId \in DOMAIN issued

C1_Witness ==
    /\ Len(execLog) = 2
    /\ \E h \in Handlers : calls[h].kind = "approve" /\ calls[h].status = 200
    /\ \E h \in Handlers : calls[h].kind = "chat" /\ calls[h].pc = "llm"

(* C2: a Start whose provider answer has no tool calls appends the user    *)
(* message and then one assistant message with the answer's content, and   *)
(* returns final with that content; on a session holding nothing else the  *)
(* memory is then exactly these two messages.                              *)
C2_StartFinal ==
    \A h \in Handlers :
       LET c == calls[h] IN
       (c.kind = "chat" /\ c.pc = "done" /\ c.status = 200
           /\ c.provider = "ok" /\ ~hasToolCalls(c.response)) =>
          /\ c.added = << [role |-> "user", content |-> c.message],
                          [role |-> "assistant",
                           content |-> c.response.content] >>
          /\ c.body = [type |-> "final", response |-> c.response.content]
          /\ Len(sessionMemories[c.memory]) = 2 =>
                sessionMemories[c.memory] = c.added
          /\ (c.message = "What is 2+2?" /\ c.response.content = "4"
                 /\ Len(sessionMemories["s1"]) = 2) =>
                sessionMemories["s1"] =
                   << [role |-> "user", content |-> "What is 2+2?"],
                      [role |-> "assistant", content |-> "4"] >>

C2_Witness ==
    \E h \in Handlers :
       /\ calls[h].kind = "chat" /\ calls[h].pc = "done"
       /\ calls[h].body = [type |-> "final", response |-> "4"]
       /\ calls[h].memory = "s1"
       /\ Len(sessionMemories["s1"]) = 2

(* C3: a step whose provider answer carries tool calls appends exactly one *)
(* assistant message with those calls, stores the suspended state (memory, *)
(* calls, iteration, config) under a requestId no pending entry has, and    *)
(* answers tool_pending with that id and one {name, args} per call in       *)
(* order; it runs no tool and makes no further provider call.               *)
C3_SuspendStep(h) ==
    LET c == calls[h]
        d == calls'[h]
        tcs == d.response.toolCalls
        mem == sessionMemories[c.memory]
    IN (c.pc = "llm" /\ d.pc = "done" /\ d.provider = "ok"
           /\ hasToolCalls(d.response)) =>
          /\ sessionMemories'[c.memory] =
                Append(mem, [role |-> "assistant",
                             content |-> d.response.content,
                             tool_calls |-> tcs])
          /\ \A s \in DOMAIN sessionMemories \ {c.memory} :
                sessionMemories'[s] = sessionMemories[s]
          /\ d.minted \notin DOMAIN pendingRequests
          /\ d.minted \notin DOMAIN pendingTimestamps
          /\ DOMAIN pendingRequests' = DOMAIN pendingRequests \cup {d.minted}
          /\ \A r \in DOMAIN pendingRequests :
                pendingRequests'[r] = pendingRequests[r]
          /\ pendingRequests'[d.minted].memory = c.memory
          /\ pendingRequests'[d.minted].toolCalls = tcs
          /\ pendingRequests'[d.minted].iteration = c.iteration
          /\ pendingRequests'[d.minted].agentConfig = c.agentConfig
          /\ d.status = 200
          /\ d.body.type = "tool_pending"
          /\ d.body.requestId = d.minted
          /\ Len(d.body.tools) = Len(tcs)
          /\ \A i \in 1..Len(tcs) :
                /\ d.body.tools[i].name = tcs[i].function.name
                /\ d.body.tools[i].args =
                      (IF tcs[i].function.arguments = "{\"cmd\":\"ls\"}"
                       THEN [cmd |-> "ls"]
                       ELSE [_raw |-> tcs[i].function.arguments])
          /\ execLog' = execLog
          /\ d.llmCalls = c.llmCalls

C3_Suspend == [][\A h \in Handlers : C3_SuspendStep(h)]_vars

C3_Witness ==
    \E h \in Handlers :
       /\ calls[h].pc = "done" /\ calls[h].status = 200
       /\ calls[h].body.type = "tool_pending"
       /\ calls[h].kind = "approve"
       /\ Cardinality(DOMAIN pendingRequests) = 2

(* C4: an Approve of a live request runs the executor once per pending     *)
(* call in the stored order, each call starting only after the result of   *)
(* the one before is appended; it appends one tool message per call in     *)
(* that order, with the call's id and, on success, the executor's output;  *)
(* the suspended state is removed; and the step loop resumes with the      *)
(* stored iteration and config.                                            *)
C4_Approve ==
    \A h \in Handlers :
       LET c == calls[h]
           st == issued[c.requestId]
           tcs == st.toolCalls
           started == IF c.pc = "exec" THEN c.k ELSE Len(tcs)
           returned == IF c.pc = "exec" THEN c.k - 1 ELSE Len(tcs)
           execs == ExecsOf(c.requestId)
       IN (Accepted(c) /\ c.kind = "approve") =>
          /\ c.requestId \notin DOMAIN pendingRequests
          /\ c.requestId \notin DOMAIN pendingTimestamps
          /\ Len(execs) = started
          /\ \A i \in 1..started : execs[i].id = tcs[i].id
          /\ Len(c.results) = returned
          /\ Len(c.added) >= returned
          /\ \A i \in 1..returned :
                /\ c.added[i].role = "tool"
                /\ c.added[i].tool_call_id = tcs[i].id
                /\ c.results[i].success =>
                      c.added[i].content = c.results[i].output
          /\ \A i \in (returned + 1)..Len(c.added) : c.added[i].role # "tool"
          /\ c.pc = "exec" => c.llmCalls = 0 /\ c.entered = -1
          /\ c.pc # "exec" =>
                /\ c.entered = st.iteration
                /\ c.agentConfig = st.agentConfig
                /\ c.memory = st.memory

C4_Witness ==
    \E h \in Handlers :
       /\ calls[h].kind = "approve" /\ calls[h].pc = "done"
       /\ calls[h].status = 200
       /\ Len(calls[h].results) = 2
       /\ calls[h].results[1].success /\ ~calls[h].results[2].success

(* What a Reject of a live request does, whatever the text of its tool    *)
(* messages: no execution, one tool message per pending call in call order *)
(* with the call's id and the given content, the suspended state removed,  *)
(* the step loop resumed from the stored iteration.                        *)
RejectsWith(content) ==
    \A h \in Handlers :
       LET c == calls[h]
           st == issued[c.requestId]
           tcs == st.toolCalls
       IN (Accepted(c) /\ c.kind = "reject") =>
          /\ ExecsOf(c.requestId) = <<>>
          /\ c.results = <<>>
          /\ c.requestId \notin DOMAIN pendingRequests
          /\ c.requestId \notin DOMAIN pendingTimestamps
          /\ Len(c.added) >= Len(tcs)
          /\ \A i \in 1..Len(tcs) :
                /\ c.added[i].role = "tool"
                /\ c.added[i].tool_call_id = tcs[i].id
                /\ c.added[i].content = content
          /\ \A i \in (Len(tcs) + 1)..Len(c.added) : c.added[i].role # "tool"
          /\ c.entered = st.iteration
          /\ c.memory = st.memory

(* C5, as claimed: a Reject of a live request runs no tool, appends one    *)
(* tool message per pending call, in order, with the call's id and the     *)
(* content "execution rejected by operator", removes the suspended state   *)
(* and resumes the step loop.                                              *)
C5_RejectAsClaimed == RejectsWith("execution rejected by operator")

(* C5, amended: the same with the content the code writes,                 *)
(* "Tool execution was rejected by the user."                              *)
C5_Reject == RejectsWith("Tool execution was rejected by the user.")

C5_Witness ==
    \E h \in Handlers :
       /\ calls[h].kind = "reject" /\ calls[h].pc = "done"
       /\ calls[h].status = 200
       /\ Len(calls[h].toolCalls) = 2
       /\ Len(calls[h].added) = 3

(* C6: once the Approve or Reject of a requestId has completed, each id of *)
(* the tool calls suspended under it is the tool_call_id of exactly one    *)
(* tool message of that session, after the assistant message that carries  *)
(* the calls (and never of two, at any time); and every tool message       *)
(* refers to a tool call of an earlier assistant message.                  *)
ToolMessagesFor(mem, id) ==
    {i \in 1..Len(mem) : mem[i].role = "tool" /\ mem[i].tool_call_id = id}

C6_ToolCallLinkage ==
    /\ \A r \in DOMAIN issued :
          LET st == issued[r]
              mem == sessionMemories[st.memory]
          IN \A j \in 1..Len(st.toolCalls) :
                /\ Cardinality(ToolMessagesFor(mem, st.toolCalls[j].id)) <= 1
                /\ \A i \in ToolMessagesFor(mem, st.toolCalls[j].id) :
                      \E p \in 1..(i - 1) :
                         IsAssistantWith(mem[p], st.toolCalls)
    /\ \A h \in Handlers :
          LET c == calls[h]
              st == issued[c.requestId]
              mem == sessionMemories[st.memory]
          IN (Accepted(c) /\ c.pc = "done") =>
                \A j \in 1..Len(st.toolCalls) :
                   Cardinality(ToolMessagesFor(mem, st.toolCalls[j].id)) = 1
    /\ \A s \in DOMAIN sessionMemories :
          LET mem == sessionMemories[s] IN
          \A i \in 1..Len(mem) :
             mem[i].role = "tool" =>
                \E p \in 1..(i - 1) :
                   /\ mem[p].role = "assistant"
                   /\ "tool_calls" \in DOMAIN mem[p]
                   /\ \E j \in 1..Len(mem[p].tool_calls) :
                         mem[p].tool_calls[j].id = mem[i].tool_call_id

C6_Witness ==
    \E h \in Handlers :
       /\ calls[h].kind = "approve" /\ calls[h].pc = "done"
       /\ calls[h].status = 200 /\ Len(calls[h].toolCalls) = 2
       /\ calls[h].body.type = "tool_pending"
       /\ Len(sessionMemories[calls[h].memory]) >= 5

(* A handler slot takes a new approve or reject call in this step *)
Decides(h) ==
    /\ nreq' = nreq + 1
    /\ Accepts(h)
    /\ calls'[h].kind \in {"approve", "reject"}
    /\ calls'[h].requestId # NoRequest

(* C7: an Approve or Reject whose requestId is not in the pending store is *)
(* answered 404 and changes no session memory and nothing of the pending   *)
(* store (entries and timestamps); no tool runs, no provider call is made. *)
C7_UnknownRequestStep(h) ==
    (Decides(h) /\ calls'[h].requestId \notin DOMAIN pendingRequests) =>
       /\ calls'[h].pc = "done"
       /\ calls'[h].status = 404
       /\ calls'[h].llmCalls = 0
       /\ calls'[h].added = <<>>
       /\ UNCHANGED <<sessionMemories, pendingRequests, pendingTimestamps,
                      execLog>>

C7_UnknownRequest == [][\A h \in Handlers : C7_UnknownRequestStep(h)]_vars

C7_Witness ==
    \E h \in Handlers :
       /\ calls[h].kind = "reject" /\ calls[h].status = 404
       /\ calls[h].requestId \in DOMAIN issued
       /\ DOMAIN pendingRequests # {}

(* An Approve or Reject whose provider call failed *)
FailedResume(c) ==
    Accepted(c) /\ c.pc = "done" /\ c.provider = "error"

(* C8, as claimed: after the provider call of a resuming Approve or Reject *)
(* failed, the suspended state is still in the pending store and the       *)
(* session memory is as before the call (the call has appended nothing).   *)
C8_RetryAsClaimed ==
    \A h \in Handlers :
       FailedResume(calls[h]) =>
          /\ calls[h].requestId \in DOMAIN pendingRequests
          /\ calls[h].added = <<>>

(* C8, amended: after the provider call of a resuming Approve or Reject    *)
(* failed, the call is answered 500, the suspended state and its timestamp *)
(* are gone, the tool messages of the call stay in the session memory, and *)
(* an Approve or Reject of the same requestId that arrives later is        *)
(* answered 404.                                                           *)
C8_AfterFailedResume ==
    \A h \in Handlers :
       LET c == calls[h]
           mem == sessionMemories[c.memory]
       IN FailedResume(c) =>
          /\ c.status = 500
          /\ c.requestId \notin DOMAIN pendingRequests
          /\ c.requestId \notin DOMAIN pendingTimestamps
          /\ Len(c.added) = Len(c.toolCalls)
          /\ \A i \in 1..Len(c.added) :
                /\ c.added[i].role = "tool"
                /\ \E p \in 1..Len(mem) : mem[p] = c.added[i]

C8_RetryStep(h) ==
    (Decides(h) /\ \E g \in Handlers :
                      /\ FailedResume(calls[g])
                      /\ calls[g].requestId = calls'[h].requestId) =>
       calls'[h].status = 404

C8_NoRetry ==
    /\ []C8_AfterFailedResume
    /\ [][\A h \in Handlers : C8_RetryStep(h)]_vars

C8_Witness ==
    \E h, g \in Handlers :
       /\ calls[g].kind = "approve" /\ FailedResume(calls[g])
       /\ Len(calls[g].added) = 2
       /\ calls[h].kind = "approve" /\ calls[h].status = 404
       /\ calls[h].requestId = calls[g].requestId

(* C9: a failed provider call ends the step: no second provider call, no   *)
(* assistant message, no pending entry, the call answered 500; the step    *)
(* that fails leaves the session memories and the pending store as they    *)
(* were.                                                                   *)
C9_Failed ==
    \A h \in Handlers :
       LET c == calls[h] IN
       c.provider = "error" =>
          /\ c.pc = "done"
          /\ c.status = 500
          /\ c.llmCalls = 1
          /\ c.minted = NoRequest
          /\ \A i \in 1..Len(c.added) : c.added[i].role # "assistant"

C9_FailStep(h) ==
    (calls[h].pc = "llm" /\ calls'[h].provider = "error") =>
       /\ UNCHANGED <<sessionMemories, pendingRequests, pendingTimestamps>>
       /\ calls'[h].added = calls[h].added

C9_ProviderFailure ==
    /\ []C9_Failed
    /\ [][\A h \in Handlers : C9_FailStep(h)]_vars

C9_Witness ==
    \E h \in Handlers :
       /\ calls[h].kind = "chat" /\ calls[h].provider = "error"
       /\ calls[h].status = 500
       /\ Len(sessionMemories[calls[h].memory]) > 1
       /\ DOMAIN pendingRequests # {}

(* C10: a step loop entered with the iteration count at MaxIterations (10) *)
(* makes no provider call and answers 200 with the final text              *)
(* "Max iterations reached."                                               *)
C10_MaxIterations ==
    \A h \in Handlers :
       LET c == calls[h] IN
       c.entered = 10 =>
          /\ c.pc = "done"
          /\ c.status = 200
          /\ c.body = [type |-> "final", response |-> "Max iterations reached."]
          /\ c.llmCalls = 0
          /\ c.provider = "none"

C10_Witness ==
    \E h \in Handlers :
       /\ calls[h].entered = 10
       /\ calls[h].kind = "approve"
       /\ Len(sessionMemories["s1"]) = 21

(* C11: in the chain of one Start and the Approves and Rejects that resume *)
(* it, the provider is called at most MaxIterations (10) times.            *)
C11_LlmCallBound ==
    /\ \A h \in Handlers : chainCalls[h] <= 10
    /\ \A r \in DOMAIN suspension : suspension[r].calls <= 10

C11_Witness ==
    /\ chainCalls[1] = 10
    /\ calls[1].kind = "reject"
    /\ calls[1].pc = "done"
    /\ calls[1].llmCalls = 0
    /\ calls[1].status = 200

(* C12: a provider round trip raises the iteration count by exactly one,   *)
(* whether it ends in tool_pending or in final; the iteration stored in a  *)
(* suspended state is the number of provider calls made since the Start of *)
(* its chain; a Start counts from 0, an Approve or Reject from the stored  *)
(* value.                                                                  *)
C12_IterationCount ==
    /\ \A r \in DOMAIN pendingRequests :
          pendingRequests[r].iteration = suspension[r].calls
    /\ \A h \in Handlers :
          LET c == calls[h] IN
          c.entered >= 0 =>
             /\ c.kind = "chat" => c.entered = 0
             /\ c.kind \in {"approve", "reject"} =>
                   c.entered = issued[c.requestId].iteration
             /\ c.llmCalls = 0 => c.iteration = c.entered
             /\ c.llmCalls > 0 => c.iteration = c.entered + 1
             /\ c.iteration = chainCalls[h]
             /\ c.minted # NoRequest =>
                   /\ issued[c.minted].iteration = c.entered + 1
                   /\ suspension[c.minted].calls = chainCalls[h]

C12_Witness ==
    \E r \in DOMAIN pendingRequests :
       /\ pendingRequests[r].iteration = 4
       /\ suspension[r].calls = 4
       /\ calls[1].kind = "reject"
       /\ calls[1].entered = 3
       /\ calls[1].minted = r

(* The time since requestId was minted, and whether it is past the TTL *)
Age(requestId) == now - suspension[requestId].at

Expired(requestId) ==
    requestId \in DOMAIN suspension /\ Age(requestId) > PENDING_TTL_MS

(* An Approve or Reject that is answered 404 and changes nothing *)
RefusedStep(h) ==
    /\ calls'[h].pc = "done"
    /\ calls'[h].status = 404
    /\ calls'[h].llmCalls = 0
    /\ calls'[h].added = <<>>
    /\ UNCHANGED <<sessionMemories, pendingRequests, pendingTimestamps,
                   execLog>>

(* C13, as claimed: an Approve or Reject of a requestId minted more than   *)
(* the TTL (10 minutes) ago is answered 404, runs no tool and changes no   *)
(* state, however often it is repeated.                                    *)
C13_ExpiredAsClaimed ==
    [][\A h \in Handlers :
          (Decides(h) /\ Expired(calls'[h].requestId)) => RefusedStep(h)]_vars

(* C13, amended: a sweep leaves no entry older than the TTL in the store,  *)
(* and from then on an Approve or Reject of a requestId that is past its   *)
(* TTL and out of the store is answered 404, runs no tool and changes no   *)
(* state, however often it is repeated.                                    *)
C13_ExpiredAndSwept ==
    /\ [][cleanupStale =>
            \A r \in DOMAIN pendingRequests' \cup DOMAIN pendingTimestamps' :
               ~Expired(r)]_vars
    /\ [][\A h \in Handlers :
            (/\ Decides(h)
             /\ Expired(calls'[h].requestId)
             /\ calls'[h].requestId \notin DOMAIN pendingRequests)
               => RefusedStep(h)]_vars

C13_Witness ==
    /\ calls[1].kind = "reject"
    /\ calls[1].status = 404
    /\ Expired(calls[1].requestId)
    /\ nreq = 3
    /\ Len(sessionMemories["s1"]) = 2
    /\ execLog = <<>>

(* C14: a sweep removes exactly the entries older than the TTL, state and  *)
(* timestamp both, and leaves every entry of age at most the TTL and every *)
(* session memory as it was.                                               *)
C14_Sweep ==
    [][cleanupStale =>
         LET kept == {r \in DOMAIN pendingRequests : Age(r) <= 600000} IN
         /\ DOMAIN pendingRequests' = kept
         /\ DOMAIN pendingTimestamps' = kept
         /\ \A r \in kept :
               /\ pendingRequests'[r] = pendingRequests[r]
               /\ pendingTimestamps'[r] = pendingTimestamps[r]
         /\ sessionMemories' = sessionMemories]_vars

C14_Witness ==
    \E r, q \in DOMAIN suspension :
       /\ Age(r) = 600001
       /\ r \notin DOMAIN pendingRequests
       /\ r \notin DOMAIN pendingTimestamps
       /\ Age(q) = 600000
       /\ q \in DOMAIN pendingRequests
       /\ q \in DOMAIN pendingTimestamps
       /\ Len(sessionMemories["s1"]) = 4
       /\ execLog = <<>>

(* The requestId has been accepted by an Approve or a Reject: its first    *)
(* tool has been started, or its calls have been answered in the memory    *)
Resumed(requestId) ==
    \/ ExecsOf(requestId) # <<>>
    \/ \E j \in 1..Len(issued[requestId].toolCalls) :
          ToolMessagesFor(sessionMemories[issued[requestId].memory],
                          issued[requestId].toolCalls[j].id) # {}

(* The Approve or Reject calls of requestId that the slots hold *)
AcceptedFor(requestId) ==
    {h \in Handlers : Accepted(calls[h]) /\ calls[h].requestId = requestId}

(* C15: a suspended state is resumed at most once: of the Approves and     *)
(* Rejects of one requestId, also concurrent ones and with sweeps between  *)
(* them, one is accepted and every later one is answered 404; no tool call *)
(* is executed twice and no tool call is answered twice in the memory.     *)
C15_Once ==
    \A r \in DOMAIN issued :
       /\ Cardinality(AcceptedFor(r)) <= 1
       /\ Resumed(r) => r \notin DOMAIN pendingRequests
       /\ \A j \in 1..Len(issued[r].toolCalls) :
             LET id == issued[r].toolCalls[j].id IN
             /\ Len(SelectSeq(execLog, LAMBDA e : e.id = id)) <= 1
             /\ Cardinality(ToolMessagesFor(
                               sessionMemories[issued[r].memory], id)) <= 1

C15_LaterStep(h) ==
    (Decides(h) /\ calls'[h].requestId \in DOMAIN issued
                /\ Resumed(calls'[h].requestId)) =>
       /\ calls'[h].status = 404
       /\ UNCHANGED <<sessionMemories, execLog>>

C15_ResumedOnce ==
    /\ []C15_Once
    /\ [][\A h \in Handlers : C15_LaterStep(h)]_vars

C15_Witness ==
    \E h, g \in Handlers :
       /\ calls[g].kind = "approve" /\ calls[g].pc = "exec" /\ calls[g].k = 2
       /\ calls[h].kind = "reject" /\ calls[h].status = 404
       /\ calls[h].requestId = calls[g].requestId

(* What the call in slot h has appended in this step *)
AppendedIn(h) ==
    IF calls'[h] = calls[h] THEN <<>>
    ELSE IF Free(h) THEN calls'[h].added
    ELSE SubSeq(calls'[h].added, Len(calls[h].added) + 1, Len(calls'[h].added))

(* C16: the messages of a session are the messages appended to it, in the  *)
(* order of the appends: a step leaves what the memory held in place and   *)
(* puts what it appends at the end.                                        *)
C16_Step(s) ==
    LET old == getMessages(sessionMemories, s)
        new == sessionMemories'[s]
        by == {h \in Handlers : calls'[h] # calls[h] /\ calls'[h].memory = s}
    IN /\ Len(new) >= Len(old)
       /\ SubSeq(new, 1, Len(old)) = old
       /\ by = {} => new = old
       /\ \A h \in by : new = old \o AppendedIn(h)

C16_AppendOnly ==
    [][/\ DOMAIN sessionMemories \subseteq DOMAIN sessionMemories'
       /\ \A s \in DOMAIN sessionMemories' : C16_Step(s)]_vars

C16_Witness ==
    /\ "s1" \in DOMAIN sessionMemories
    /\ Len(sessionMemories["s1"]) = 6
    /\ sessionMemories["s1"][1].role = "user"
    /\ sessionMemories["s1"][2].role = "assistant"
    /\ sessionMemories["s1"][3].role = "user"
    /\ sessionMemories["s1"][4].role = "tool"
    /\ sessionMemories["s1"][5].role = "tool"
    /\ sessionMemories["s1"][6].role = "assistant"

(* The session has a suspended state in the pending store *)
HasLivePending(sessionId) ==
    \E r \in DOMAIN pendingRequests : pendingRequests[r].memory = sessionId

(* C17, as claimed: a Start for a session that has a live suspended state  *)
(* is refused with a conflict and appends nothing.                         *)
C17_StartRefusedAsClaimed ==
    [][\A h \in Handlers :
          (/\ nreq' = nreq + 1
           /\ Accepts(h)
           /\ calls'[h].kind = "chat"
           /\ HasLivePending(calls'[h].memory)) =>
             /\ calls'[h].status = 409
             /\ sessionMemories' = sessionMemories]_vars

(* C18: sessions are independent.  A call touches no memory but its own;   *)
(* a Start works on the session its body names ("default" if it names      *)
(* none), an Approve or Reject on the session its request was suspended    *)
(* on, whatever sessionId its body carries; the memory of a session is     *)
(* made on first use and is the same memory from then on.                  *)
C18_Step(h) ==
    LET d == calls'[h] IN
    calls'[h] # calls[h] =>
       /\ \A s \in DOMAIN sessionMemories \ {d.memory} :
             /\ s \in DOMAIN sessionMemories'
             /\ sessionMemories'[s] = sessionMemories[s]
       /\ DOMAIN sessionMemories' \subseteq DOMAIN sessionMemories \cup {d.memory}
       /\ d.memory \in DOMAIN sessionMemories =>
             /\ Len(sessionMemories'[d.memory]) >= Len(sessionMemories[d.memory])
             /\ \A i \in 1..Len(sessionMemories[d.memory]) :
                   sessionMemories'[d.memory][i] = sessionMemories[d.memory][i]
       /\ (d.kind = "chat" /\ d.message = "What is 2+2?") => d.memory = "s1"
       /\ (d.kind = "chat" /\ d.message = "list files") => d.memory = "default"
       /\ Accepted(d) => d.memory = issued[d.requestId].memory
       /\ d.minted # NoRequest => issued'[d.minted].memory = d.memory

C18_SessionsIndependent ==
    [][/\ \A h \in Handlers : C18_Step(h)
       /\ calls' = calls => sessionMemories' = sessionMemories]_vars

C18_Witness ==
    \E h, g \in Handlers :
       /\ calls[h].kind = "approve" /\ Accepted(calls[h])
       /\ calls[h].memory = "default"
       /\ Len(calls[h].added) = 2
       /\ calls[g].kind = "chat" /\ calls[g].memory = "s1"
       /\ Len(sessionMemories["s1"]) = 1

(* Message i opens a group of the encoding: it is no tool message, or it   *)
(* is the first of a run of tool messages                                  *)
StartsGroup(msgs, i) ==
    msgs[i].role # "tool" \/ i = 1 \/ msgs[i - 1].role # "tool"

(* The groups up to message i; the run of tool messages around message i *)
GroupOf(msgs, i) == Cardinality({j \in 1..i : StartsGroup(msgs, j)})

RunStart(msgs, i) ==
    CHOOSE a \in 1..i :
       StartsGroup(msgs, a) /\ \A j \in (a + 1)..i : ~StartsGroup(msgs, j)

RunEnd(msgs, i) ==
    CHOOSE b \in i..Len(msgs) :
       /\ \A j \in (i + 1)..b : msgs[j].role = "tool"
       /\ b = Len(msgs) \/ msgs[b + 1].role # "tool"

(* C19: the merging law.  In the encoding for Anthropic every maximal run  *)
(* of k consecutive tool messages is one emitted user message whose        *)
(* content is the k tool_result blocks in order, each with the             *)
(* tool_call_id of its message as tool_use_id; a tool message behind a     *)
(* plain user or assistant message starts a new emitted message.           *)
C19_MergingLaw ==
    codecPc \in {"posted", "answered", "returned"} =>
       LET msgs == nonSystemMessages(messages)
           out == requestData.messages
       IN /\ Len(out) = (IF msgs = <<>> THEN 0 ELSE GroupOf(msgs, Len(msgs)))
          /\ \A i \in 1..Len(msgs) :
                msgs[i].role = "tool" =>
                   LET g == GroupOf(msgs, i)
                       a == RunStart(msgs, i)
                       b == RunEnd(msgs, i)
                   IN /\ out[g].role = "user"
                      /\ out[g].isArray
                      /\ Len(out[g].content) = b - a + 1
                      /\ out[g].content[i - a + 1] =
                            [type |-> "tool_result",
                             tool_use_id |-> msgs[i].tool_call_id,
                             content |-> msgs[i].content]
                      /\ (i > 1 /\ msgs[i - 1].role # "tool") =>
                            /\ g > 1
                            /\ out[g - 1].role = msgs[i - 1].role
                            /\ Len(out[g].content) = b - i + 1

C19_Witness ==
    /\ codecPc = "posted"
    /\ Len(messages) = 4
    /\ messages[1].role = "tool" /\ messages[2].role = "tool"
    /\ messages[3].role = "user" /\ messages[4].role = "tool"
    /\ Len(requestData.messages) = 3
    /\ Len(requestData.messages[1].content) = 2
    /\ Len(requestData.messages[3].content) = 1

(* The assistant message whose encoding the vendor's answer repeats: the   *)
(* encoding keeps the assistant messages one for one and in order          *)
EchoedSource ==
    LET msgs == nonSystemMessages(messages)
        out == requestData.messages
        k == Cardinality({j \in 1..echoed : out[j].role = "assistant"})
    IN msgs[CHOOSE i \in 1..Len(msgs) :
               /\ msgs[i].role = "assistant"
               /\ Cardinality({j \in 1..i : msgs[j].role = "assistant"}) = k]

ToolCallsOf(m) == IF "tool_calls" \in DOMAIN m THEN m.tool_calls ELSE <<>>

DecodedToolCalls ==
    IF "toolCalls" \in DOMAIN llmResponse THEN llmResponse.toolCalls ELSE <<>>

(* Two texts are JSON of the same value *)
JsonEqual(a, b) ==
    /\ a \in DOMAIN JsonParse
    /\ b \in DOMAIN JsonParse
    /\ JsonParse[a] = JsonParse[b]

(* C20, as claimed: encoding an assistant message with N tool calls and    *)
(* decoding an answer made of the emitted blocks gives N tool calls in the *)
(* same order with the same ids and names and with arguments JSON-equal to *)
(* the original ones, whatever the argument strings are.                   *)
C20_RoundTripAsClaimed ==
    codecPc = "returned" =>
       LET orig == ToolCallsOf(EchoedSource)
           got == DecodedToolCalls
       IN /\ Len(got) = Len(orig)
          /\ \A j \in 1..Len(orig) :
                /\ got[j].id = orig[j].id
                /\ got[j].function.name = orig[j].function.name
                /\ JsonEqual(got[j].function.arguments,
                             orig[j].function.arguments)

(* C20, amended: the same for argument strings that are valid JSON; an     *)
(* argument string that is not valid JSON, the empty string included,      *)
(* comes back as "{}".                                                     *)
C20_RoundTrip ==
    codecPc = "returned" =>
       LET orig == ToolCallsOf(EchoedSource)
           got == DecodedToolCalls
       IN /\ Len(got) = Len(orig)
          /\ \A j \in 1..Len(orig) :
                /\ got[j].id = orig[j].id
                /\ got[j].type = "function"
                /\ got[j].function.name = orig[j].function.name
                /\ IF orig[j].function.arguments \in DOMAIN JsonParse
                   THEN JsonEqual(got[j].function.arguments,
                                  orig[j].function.arguments)
                   ELSE got[j].function.arguments = "{}"

C20_Witness ==
    /\ codecPc = "returned"
    /\ Len(DecodedToolCalls) = 2
    /\ Len(ToolCallsOf(EchoedSource)) = 2
    /\ EchoedSource.tool_calls[1].function.arguments = "{ \"cmd\": \"ls\" }"
    /\ DecodedToolCalls[1].function.arguments = "{\"cmd\":\"ls\"}"
    /\ DecodedToolCalls[2].function.arguments = "{}"
    /\ llmResponse.content = "Let me check."

(* What C21 calls a request that fails the validation, read off the        *)
(* request alone                                                           *)
IsPostRoute(req) ==
    /\ req.method = "POST"
    /\ req.url \in {"/api/chat", "/api/chat/approve", "/api/chat/reject"}

NotJson(req) == IsPostRoute(req) /\ req.contentType \in {"text/plain", ""}

FieldNotString(req, field) ==
    \/ req.body = NullBody
    \/ field \notin DOMAIN req.body
    \/ /\ "typeof" \in DOMAIN req.body
       /\ field \in DOMAIN req.body.typeof

BadChat(req) ==
    /\ IsPostRoute(req) /\ ~NotJson(req)
    /\ req.url = "/api/chat"
    /\ \/ FieldNotString(req, "message")
       \/ req.body.message \in {"", "  "}

BadDecision(req) ==
    /\ IsPostRoute(req) /\ ~NotJson(req)
    /\ req.url \in {"/api/chat/approve", "/api/chat/reject"}
    /\ FieldNotString(req, "requestId")

C21_Step(h, req) ==
    /\ NotJson(req) => calls'[h].status = 415
    /\ BadChat(req) \/ BadDecision(req) => calls'[h].status = 400
    /\ NotJson(req) \/ BadChat(req) \/ BadDecision(req) =>
          /\ UNCHANGED <<sessionMemories, pendingRequests, pendingTimestamps,
                         issued, nextRequestId, execLog>>
          /\ calls'[h].pc = "done"
          /\ calls'[h].llmCalls = 0
          /\ calls'[h].added = <<>>
          /\ \A g \in Handlers \ {h} : calls'[g] = calls[g]

(* C21: request validation never mutates state.  A POST /chat whose        *)
(* message is missing, not a string or blank is answered 400; a POST to    *)
(* chat, approve or reject without a JSON content type is answered 415; an *)
(* approve or reject without a string requestId is answered 400; in each   *)
(* case no session memory is created or changed, no pending entry is added *)
(* or removed, and no provider or tool call is made.                       *)
C21_Validation ==
    [][\A h \in Handlers, req \in HttpRequests :
          request(h, req) => C21_Step(h, req)]_vars

C21_Witness ==
    /\ calls[1].status = 415
    /\ calls[2].status = 400
    /\ calls[2].kind = "approve"
    /\ DOMAIN pendingRequests # {}
    /\ "s1" \in DOMAIN sessionMemories

(* The argument strings of the model that are JSON texts *)
IsJsonText(arguments) ==
    arguments \in {"{\"cmd\":\"ls\"}", "{ \"cmd\": \"ls\" }", "{}"}

(* The arguments of toolCall are shown or passed on as args *)
ArgsFallback(toolCall, args) ==
    ~IsJsonText(toolCall.function.arguments) =>
       args = [_raw |-> toolCall.function.arguments]

(* C22: tool-call arguments that are not valid JSON fail neither a step    *)
(* nor an approval.  The step that received them suspends, and its         *)
(* tool_pending response lists the args of that call as {_raw: the raw     *)
(* argument string}; on Approve the executor is started for that call with *)
(* the same {_raw: ...}, and its result is appended as a tool message like *)
(* any other.                                                              *)
C22_RawArgs ==
    \A h \in Handlers :
       LET c == calls[h] IN
       /\ (c.provider = "ok" /\ hasToolCalls(c.response)) =>
             /\ c.pc = "done"
             /\ c.status = 200
             /\ c.body.type = "tool_pending"
             /\ c.minted \in DOMAIN issued
             /\ issued[c.minted].toolCalls = c.response.toolCalls
             /\ Len(c.body.tools) = Len(c.response.toolCalls)
             /\ \A i \in 1..Len(c.response.toolCalls) :
                   /\ c.body.tools[i].name =
                         c.response.toolCalls[i].function.name
                   /\ ArgsFallback(c.response.toolCalls[i],
                                   c.body.tools[i].args)
       /\ (c.kind = "approve" /\ c.pc \in {"exec", "llm", "done"}
             /\ c.status \notin {400, 404}) =>
             LET execs == ExecsOf(c.requestId)
                 started == IF c.pc = "exec" THEN c.k ELSE Len(c.toolCalls)
                 results == SelectSeq(c.added, IsToolMessage)
             IN /\ c.status # 500
                /\ Len(execs) = started
                /\ \A j \in 1..started :
                      /\ execs[j].id = c.toolCalls[j].id
                      /\ execs[j].name = c.toolCalls[j].function.name
                      /\ ArgsFallback(c.toolCalls[j], execs[j].args)
                /\ Len(results) = Len(c.results)
                /\ \A j \in 1..Len(c.results) :
                      /\ results[j].tool_call_id = c.toolCalls[j].id
                      /\ results[j].name = c.toolCalls[j].function.name
                      /\ results[j].content =
                            (IF c.results[j].success THEN c.results[j].output
                             ELSE "Error: denied")

C22_Witness ==
    /\ calls[1].kind = "approve"
    /\ calls[1].pc = "llm"
    /\ Len(execLog) = 2
    /\ execLog[2].args = [_raw |-> "{bad"]
    /\ execLog[2].name = "write_file"
    /\ calls[1].results[2].success
    /\ issued[calls[1].requestId].toolCalls[2].function.arguments = "{bad"
    /\ sessionMemories["s1"][Len(sessionMemories["s1"])].tool_call_id = 2

(* The response of a call that was answered: final, tool_pending or an     *)
(* error                                                                   *)
IsResponse(c) ==
    \/ /\ c.status = 200
       /\ c.kind \in {"chat", "approve", "reject"}
       /\ c.body.type \in {"final", "tool_pending"}
    \/ /\ c.status \in {400, 404, 415, 500}
       /\ "error" \in DOMAIN c.body
    \/ c.kind \in {"health", "options"} /\ c.status \in {200, 204}

(* C23: every accepted Start, Approve or Reject is answered, and answered  *)
(* once, with final, tool_pending or an error, when every provider call    *)
(* and every tool execution returns or fails; no call stays suspended      *)
(* without a response.                                                     *)
C23_Answered ==
    /\ \A h \in Handlers :
          (calls[h].pc \in {"exec", "llm"}) ~> (calls[h].pc = "done")
    /\ [](\A h \in Handlers :
            /\ calls[h].pc \in {"idle", "exec", "llm", "done"}
            /\ calls[h].pc = "done" => IsResponse(calls[h])
            /\ calls[h].pc \in {"exec", "llm"} => calls[h].status = 0)
    /\ [][\A h \in Handlers :
            (calls[h].pc = "done" /\ calls'[h] # calls[h]) =>
               nreq' = nreq + 1]_vars

C23_Witness ==
    /\ calls[1].kind = "approve"
    /\ calls[1].pc = "done"
    /\ Len(calls[1].results) = 2
    /\ calls[1].llmCalls = 1
    /\ calls[1].status = 200
    /\ calls[1].body.type = "final"
    /\ calls[2].kind = "chat"
    /\ calls[2].pc = "done"
    /\ calls[2].status = 500

(* C24: the start-up order of the container.  The voice server is started  *)
(* only after a health check of the API server has succeeded; when the API *)
(* has not answered the health check in 30 attempts one second apart, the  *)
(* entrypoint kills the API process and exits with status 1 and never     *)
(* starts the voice server.                                                *)
C24_StartupOrder ==
    /\ voice # "none" => successes >= 1
    /\ attempts <= 30
    /\ (attempts = 30 /\ successes = 0) =>
          /\ entryPc \in {"sleep", "check", "exited"}
          /\ voice = "none"
          /\ entryPc = "exited" =>
                /\ exitStatus = 1
                /\ api \in {"killed", "exited"}
                /\ slept = 30
    /\ (entryPc \in {"wait", "exited"} /\ successes = 0) =>
          /\ attempts = 30
          /\ entryPc = "exited"
          /\ exitStatus = 1
    /\ (entryPc = "check" /\ successes = 0) => attempts = 30

C24_Witness ==
    /\ entryPc = "exited"
    /\ attempts = 30
    /\ successes = 0
    /\ api = "killed"
    /\ exitStatus = 1
    /\ voice = "none"

(* The other case of C24: the voice server runs behind a health check that *)
(* succeeded at the last attempt                                           *)
C24_WitnessStarted ==
    /\ voice = "running"
    /\ attempts = 30
    /\ successes = 1
    /\ entryPc = "wait"

(* C25: the pending store does not grow without bound.  Every suspended    *)
(* state put into the store is absent from it later on, when the periodic  *)
(* sweep keeps firing and the clock advances; it leaves the store by an    *)
(* Approve or a Reject of its requestId or by a sweep, and a sweep that     *)
(* runs more than 10 minutes after its creation removes it.                *)
C25_EventuallyAbsent ==
    /\ \A r \in 1..MaxRequests :
          (r \in DOMAIN pendingRequests) ~> (r \notin DOMAIN pendingRequests)
    /\ [][\A r \in DOMAIN pendingRequests :
            /\ r \notin DOMAIN pendingRequests' =>
                  \/ /\ calls'[1] # calls[1]
                     /\ calls'[1].kind \in {"approve", "reject"}
                     /\ calls'[1].requestId = r
                     /\ nreq' = nreq + 1
                  \/ /\ calls' = calls
                     /\ now - suspension[r].at > 600000
            /\ (cleanupStale /\ now - suspension[r].at > 600000) =>
                  r \notin DOMAIN pendingRequests'
         ]_vars

C25_Witness ==
    /\ nreq = 1
    /\ calls[1].kind = "chat"
    /\ calls[1].minted = 1
    /\ now - suspension[1].at = 600001
    /\ DOMAIN pendingRequests = {}
    /\ DOMAIN pendingTimestamps = {}

C26_Step(h) ==
    Decides(h) =>
       LET r == calls'[h].requestId IN
       /\ calls'[h].status = 404 <=> r \notin DOMAIN pendingRequests
       /\ r \in DOMAIN pendingRequests =>
             /\ r \notin DOMAIN pendingRequests'
             /\ calls'[h].toolCalls = pendingRequests[r].toolCalls
             /\ calls'[h].memory = pendingRequests[r].memory
             /\ \/ calls'[h].pc \in {"exec", "llm"}
                \/ calls'[h].pc = "done" /\ calls'[h].status = 200

(* C26: an Approve or Reject is answered 404 (unknown or expired           *)
(* requestId) if and only if its requestId is not in the pending store     *)
(* when it is looked up: never issued, already resumed, or already swept.  *)
(* The lookup does not compare the age of the entry with the TTL: an entry *)
(* still in the store is resumed.                                          *)
C26_LookupOnly ==
    /\ [](\A r \in DOMAIN issued :
            r \notin DOMAIN pendingRequests => Resumed(r) \/ Expired(r))
    /\ [][\A h \in Handlers : C26_Step(h)]_vars

C26_Witness ==
    /\ calls[1].kind = "approve"
    /\ calls[1].pc = "exec"
    /\ calls[1].requestId \in DOMAIN issued
    /\ now - suspension[calls[1].requestId].at = 600001
    /\ calls[1].requestId \notin DOMAIN pendingRequests
    /\ Len(execLog) = 1

(* The other cases of C26: a requestId never issued, and one swept *)
C26_WitnessNeverIssued ==
    /\ calls[1].kind = "reject"
    /\ calls[1].status = 404
    /\ calls[1].requestId \notin DOMAIN issued
    /\ DOMAIN pendingRequests # {}

(* The call in slot h is answered in this step *)
Answers(h) == calls'[h] # calls[h] /\ calls'[h].pc = "done"

(* The requestIds that enter and leave the pending store in this step *)
Added == DOMAIN pendingRequests' \ DOMAIN pendingRequests

Removed == DOMAIN pendingRequests \ DOMAIN pendingRequests'

C27_Step ==
    /\ \A r \in DOMAIN pendingRequests \cap DOMAIN pendingRequests' :
          pendingRequests'[r] = pendingRequests[r]
    /\ \A h \in Handlers :
          /\ (Answers(h) /\ calls'[h].status = 200
                /\ calls'[h].body.type = "final") =>
                /\ Added = {}
                /\ Removed \subseteq {calls'[h].requestId}
                /\ Removed # {} => Decides(h)
          /\ (Answers(h) /\ calls'[h].status = 200
                /\ calls'[h].body.type = "tool_pending") =>
                /\ Added = {calls'[h].body.requestId}
                /\ Removed = {}
          /\ (Decides(h) /\ calls'[h].status # 404) =>
                /\ Removed = {calls'[h].requestId}
                /\ calls'[h].toolCalls =
                      pendingRequests[calls'[h].requestId].toolCalls
                /\ calls'[h].memory =
                      pendingRequests[calls'[h].requestId].memory
                /\ calls'[h].agentConfig =
                      pendingRequests[calls'[h].requestId].agentConfig
                /\ calls'[h].entered \in
                      {-1, pendingRequests[calls'[h].requestId].iteration}
    /\ Added # {} =>
          \E h \in Handlers :
             /\ Answers(h)
             /\ calls'[h].status = 200
             /\ calls'[h].body.type = "tool_pending"
    /\ Removed # {} =>
          \/ \E h \in Handlers : Decides(h) /\ calls'[h].status # 404
          \/ /\ calls' = calls
             /\ \A r \in Removed : now - suspension[r].at > 600000

(* C27: the pending store changes only at suspension and at resumption     *)
(* (and in a sweep).  A step that ends in final, the final of the          *)
(* iteration bound included, adds no entry and removes none but the one it *)
(* resumed; a step that ends in tool_pending adds exactly one entry; a     *)
(* resumption works on what the entry holds.  So the live entries are the  *)
(* tool_pending outcomes returned and not yet approved, rejected or swept. *)
C27_StoreFrame ==
    /\ [](/\ DOMAIN pendingRequests \subseteq DOMAIN issued
          /\ Cardinality(DOMAIN issued) = nextRequestId - 1
          /\ \A r \in DOMAIN issued :
                /\ Resumed(r) => r \notin DOMAIN pendingRequests
                /\ r \notin DOMAIN pendingRequests =>
                      Resumed(r) \/ Expired(r)
                /\ r \in DOMAIN pendingRequests =>
                      pendingRequests[r] = issued[r])
    /\ [][C27_Step]_vars

C27_Witness ==
    /\ calls[1].kind = "reject"
    /\ calls[1].status = 200
    /\ calls[1].body = [type |-> "final", response |-> "Max iterations reached."]
    /\ calls[1].llmCalls = 0
    /\ Cardinality(DOMAIN issued) = 10
    /\ DOMAIN pendingRequests = {}

(* The other case of C27: an entry left the store in a sweep *)
C27_WitnessSwept ==
    \E r \in DOMAIN issued :
       /\ ~Resumed(r)
       /\ r \notin DOMAIN pendingRequests
       /\ calls[1].body.type = "tool_pending"
       /\ calls[1].body.requestId = r

(* The messages behind the leading system message *)
BehindSystem ==
    IF messages # <<>> /\ messages[1].role = "system"
    THEN Tail(messages) ELSE messages

(* C28: for Anthropic the system message is taken out of the message       *)
(* sequence and sent as the top-level field system: no emitted message     *)
(* comes from a system message, the field is the content of the leading    *)
(* system message, and there is no such field when there is no system      *)
(* message.                                                                *)
C28_SystemField ==
    codecPc \in {"posted", "answered", "returned"} =>
       /\ requestData.messages = formatAnthropicMessages(BehindSystem)
       /\ Len(requestData.messages) <= Len(BehindSystem)
       /\ \A j \in 1..Len(requestData.messages) :
             \/ requestData.messages[j].isArray
             \/ \E k \in 1..Len(BehindSystem) :
                   /\ BehindSystem[k].role # "system"
                   /\ BehindSystem[k].content = requestData.messages[j].content
       /\ (messages # <<>> /\ messages[1].role = "system") =>
             /\ "system" \in DOMAIN requestData
             /\ requestData.system = messages[1].content
       /\ (\A k \in 1..Len(messages) : messages[k].role # "system") =>
             "system" \notin DOMAIN requestData

C28_Witness ==
    /\ codecPc = "posted"
    /\ Len(messages) = 3
    /\ messages[1] = [role |-> "system", content |-> "You are nano-claw."]
    /\ requestData.system = "You are nano-claw."
    /\ Len(requestData.messages) = 2
    /\ requestData.messages[1].role = "user"
    /\ requestData.messages[2].role = "assistant"

(* The other case of C28: no system message, no field *)
C28_WitnessNoSystem ==
    /\ codecPc = "posted"
    /\ Len(messages) = 2
    /\ messages[1].role = "user"
    /\ DOMAIN requestData = {"messages"}

(* The value of an argument string as the encoder emits it *)
ParsedOrEmpty(arguments) ==
    IF arguments \in {"{\"cmd\":\"ls\"}", "{ \"cmd\": \"ls\" }"}
    THEN [cmd |-> "ls"]
    ELSE EmptyObject

(* C29: for Anthropic an assistant message with N >= 1 tool calls is       *)
(* emitted as exactly one assistant message whose content is a block list: *)
(* first one text block if and only if the content is not empty, then      *)
(* exactly N tool_use blocks in the order of the tool calls, each with the *)
(* id and the name of its call and the arguments parsed from JSON, or the  *)
(* empty object when the arguments do not parse.                           *)
C29_ToolUseBlocks ==
    codecPc \in {"posted", "answered", "returned"} =>
       LET msgs == BehindSystem
           out == requestData.messages
       IN /\ Cardinality({j \in 1..Len(out) : out[j].role = "assistant"}) =
                Cardinality({k \in 1..Len(msgs) : msgs[k].role = "assistant"})
          /\ \A k \in 1..Len(msgs) :
                (msgs[k].role = "assistant" /\ Len(ToolCallsOf(msgs[k])) >= 1)
                => LET m == out[GroupOf(msgs, k)]
                       N == Len(msgs[k].tool_calls)
                       t == IF msgs[k].content # "" THEN 1 ELSE 0
                   IN /\ m.role = "assistant"
                      /\ m.isArray
                      /\ Len(m.content) = t + N
                      /\ t = 1 => m.content[1] =
                                     [type |-> "text", text |-> msgs[k].content]
                      /\ \A n \in 1..N :
                            m.content[t + n] =
                               [type |-> "tool_use",
                                id |-> msgs[k].tool_calls[n].id,
                                name |-> msgs[k].tool_calls[n].function.name,
                                input |-> ParsedOrEmpty(
                                   msgs[k].tool_calls[n].function.arguments)]

C29_Witness ==
    /\ codecPc = "posted"
    /\ Len(messages) = 2
    /\ messages[1].role = "user"
    /\ messages[2].content = "Let me check."
    /\ Len(messages[2].tool_calls) = 2
    /\ Len(requestData.messages) = 2
    /\ Len(requestData.messages[2].content) = 3
    /\ requestData.messages[2].content[2].input = [cmd |-> "ls"]
    /\ requestData.messages[2].content[3].input = EmptyObject

(* The text blocks and the tool_use blocks of the vendor's answer *)
TextBlocks == SelectSeq(responseData.content, LAMBDA b : b.type = "text")

ToolUseBlocks == SelectSeq(responseData.content, LAMBDA b : b.type = "tool_use")

(* C30: decoding an answer of Anthropic gives as content the texts of all  *)
(* text blocks, in block order, joined by newlines, and one canonical tool *)
(* call for each tool_use block, in block order, with the id and the name  *)
(* of the block and the JSON text of its input as arguments; there is no   *)
(* toolCalls when the answer has no tool_use block.                        *)
C30_Decode ==
    codecPc = "returned" =>
       /\ Len(TextBlocks) <= 3
       /\ Len(TextBlocks) = 0 => llmResponse.content = ""
       /\ Len(TextBlocks) = 1 => llmResponse.content = TextBlocks[1].text
       /\ Len(TextBlocks) = 2 =>
             llmResponse.content =
                TextBlocks[1].text \o "\n" \o TextBlocks[2].text
       /\ Len(TextBlocks) = 3 =>
             llmResponse.content =
                TextBlocks[1].text \o "\n" \o TextBlocks[2].text
                   \o "\n" \o TextBlocks[3].text
       /\ "toolCalls" \in DOMAIN llmResponse <=> Len(ToolUseBlocks) > 0
       /\ Len(DecodedToolCalls) = Len(ToolUseBlocks)
       /\ \A n \in 1..Len(ToolUseBlocks) :
             DecodedToolCalls[n] =
                [id |-> ToolUseBlocks[n].id, type |-> "function",
                 function |->
                    [name |-> ToolUseBlocks[n].name,
                     arguments |-> IF ToolUseBlocks[n].input = EmptyObject
                                   THEN "{}" ELSE "{\"cmd\":\"ls\"}"]]

C30_Witness ==
    /\ codecPc = "returned"
    /\ Len(responseData.content) = 5
    /\ responseData.content[3].type = "tool_use"
    /\ responseData.content[5].type = "text"
    /\ llmResponse.content = "One moment.\nLet me check.\nDone."
    /\ Len(llmResponse.toolCalls) = 2
    /\ llmResponse.toolCalls[2].function.arguments = "{}"

(* The other case of C30: an answer without a tool_use block *)
C30_WitnessNoToolUse ==
    /\ codecPc = "returned"
    /\ Len(responseData.content) = 3
    /\ llmResponse.content = "One moment.\nok\nDone."
    /\ "toolCalls" \notin DOMAIN llmResponse

----------------------------------------------------------------------------
(* C34: one run of the step loop (in a Start, an Approve or a Reject) makes *)
(* at most one provider call before the handler answers: the iteration     *)
(* count rises by at most one in the call, and a call whose provider call  *)
(* returned answers 200 with final or tool_pending.                        *)
C34_OneLlmCall ==
    \A h \in Handlers :
       LET c == calls[h] IN
       /\ c.llmCalls <= 1
       /\ c.entered >= 0 => c.iteration <= c.entered + 1
       /\ c.pc = "llm" => c.llmCalls = 1
       /\ c.provider = "ok" =>
             /\ c.pc = "done"
             /\ c.llmCalls = 1
             /\ c.status = 200
             /\ c.body.type \in {"final", "tool_pending"}

C34_Witness ==
    \E h \in Handlers :
       /\ calls[h].kind = "approve"
       /\ calls[h].pc = "done"
       /\ calls[h].llmCalls = 1
       /\ calls[h].status = 200
       /\ calls[h].body.type = "tool_pending"
       /\ Len(calls[h].results) = 2

(* The other outcomes of C34: a Reject answered final after one call *)
C34_WitnessReject ==
    \E h \in Handlers :
       /\ calls[h].kind = "reject"
       /\ calls[h].pc = "done"
       /\ calls[h].llmCalls = 1
       /\ calls[h].status = 200
       /\ calls[h].body.type = "final"

(* C35: the map of suspended states and the map of creation timestamps     *)
(* hold the same requestIds in every reachable state, whatever the         *)
(* interleaving of the handlers and the sweep.                             *)
C35_SameKeys == DOMAIN pendingRequests = DOMAIN pendingTimestamps

C35_Witness ==
    /\ \E r \in DOMAIN pendingRequests :
          \E q \in DOMAIN issued : q # r /\ q \notin DOMAIN pendingRequests
    /\ \E h \in Handlers : calls[h].kind = "approve" /\ calls[h].minted # NoRequest

(* The sweep of C35: the only entry ever stored is swept from both maps *)
C35_WitnessSwept ==
    /\ DOMAIN issued # {}
    /\ DOMAIN pendingRequests = {}
    /\ DOMAIN pendingTimestamps = {}
    /\ \A h \in Handlers : calls[h].kind \notin {"approve", "reject"}

(* C36: the step whose provider call is the 10th of the chain and returns  *)
(* tool calls suspends with tool_pending and stores iteration 10; the      *)
(* Approve of that state runs every pending tool, appends a tool message   *)
(* for each, makes no provider call, appends no assistant message and      *)
(* answers final "Max iterations reached.", so that the session memory     *)
(* ends with a tool message.                                               *)
C36_TenthCall ==
    \A h \in Handlers :
       LET c == calls[h] IN
       /\ (c.entered = 9 /\ c.provider = "ok" /\ hasToolCalls(c.response)) =>
             /\ c.status = 200
             /\ c.body.type = "tool_pending"
             /\ c.minted # NoRequest
             /\ c.body.requestId = c.minted
             /\ issued[c.minted].iteration = 10
       /\ (/\ c.kind = "approve" /\ c.pc = "done" /\ c.status # 404
           /\ c.requestId \in DOMAIN issued
           /\ issued[c.requestId].iteration = 10) =>
             /\ c.status = 200
             /\ c.body = [type |-> "final", response |-> MaxIterText]
             /\ c.llmCalls = 0
             /\ c.provider = "none"
             /\ Len(ExecsOf(c.requestId)) = Len(c.toolCalls)
             /\ Len(c.added) = Len(c.toolCalls)
             /\ \A n \in 1..Len(c.added) :
                   /\ IsToolMessage(c.added[n])
                   /\ c.added[n].tool_call_id = c.toolCalls[n].id
             /\ LET memory == sessionMemories[c.memory]
                IN /\ Len(memory) > 0
                   /\ IsToolMessage(memory[Len(memory)])
                   /\ memory[Len(memory)] = c.added[Len(c.added)]

C36_Witness ==
    \E h \in Handlers :
       /\ calls[h].kind = "approve"
       /\ calls[h].pc = "done"
       /\ calls[h].requestId \in DOMAIN issued
       /\ issued[calls[h].requestId].iteration = 10
       /\ calls[h].body = [type |-> "final", response |-> MaxIterText]
       /\ calls[h].llmCalls = 0
       /\ Len(calls[h].added) = 1
       /\ sessionMemories["s1"][Len(sessionMemories["s1"])].role = "tool"

----------------------------------------------------------------------------
(* C38: whether a step suspends or finishes is decided by the tool calls   *)
(* of the response alone: a response with a non-empty list of tool calls   *)
(* suspends (assistant message with the calls appended, state stored,      *)
(* tool_pending answered) under every finishReason, and a response whose   *)
(* list is absent or empty is final (plain assistant message appended,     *)
(* nothing stored, final answered) under every finishReason.               *)
C38_Decision ==
    \A h \in Handlers :
       LET c == calls[h]
           last == c.added[Len(c.added)]
       IN c.provider = "ok" =>
             /\ c.pc = "done" /\ c.status = 200
             /\ Len(c.added) > 0
             /\ ("toolCalls" \in DOMAIN c.response
                    /\ Len(c.response.toolCalls) > 0) =>
                   /\ c.body.type = "tool_pending"
                   /\ c.minted # NoRequest
                   /\ c.body.requestId = c.minted
                   /\ issued[c.minted].toolCalls = c.response.toolCalls
                   /\ IsAssistantWith(last, c.response.toolCalls)
             /\ ("toolCalls" \notin DOMAIN c.response
                    \/ Len(c.response.toolCalls) = 0) =>
                   /\ c.body = [type |-> "final",
                                response |-> c.response.content]
                   /\ c.minted = NoRequest
                   /\ last = [role |-> "assistant",
                              content |-> c.response.content]

C38_Witness ==
    \E h \in Handlers :
       /\ calls[h].provider = "ok"
       /\ calls[h].response.finishReason = "end_turn"
       /\ "toolCalls" \in DOMAIN calls[h].response
       /\ Len(calls[h].response.toolCalls) = 1
       /\ calls[h].body.type = "tool_pending"
       /\ calls[h].minted \in DOMAIN pendingRequests

(* The other cases of C38: an absent list or an empty one is final under   *)
(* the finishReason tool_use or max_tokens                                 *)
C38_WitnessAbsent ==
    \E h \in Handlers :
       /\ calls[h].provider = "ok"
       /\ calls[h].response.finishReason = "tool_use"
       /\ "toolCalls" \notin DOMAIN calls[h].response
       /\ calls[h].body.type = "final"

C38_WitnessEmpty ==
    \E h \in Handlers :
       /\ calls[h].provider = "ok"
       /\ calls[h].response.finishReason = "max_tokens"
       /\ "toolCalls" \in DOMAIN calls[h].response
       /\ calls[h].response.toolCalls = <<>>
       /\ calls[h].body.type = "final"
       /\ calls[h].kind = "approve"

----------------------------------------------------------------------------
(* The emitted message o carries canonical message msgs[i] *)
ComesFrom(o, msgs, i) ==
    LET m == msgs[i] IN
    IF m.role = "tool"
    THEN /\ o.role = "user" /\ o.isArray
         /\ i - RunStart(msgs, i) + 1 \in 1..Len(o.content)
         /\ o.content[i - RunStart(msgs, i) + 1] =
               [type |-> "tool_result", tool_use_id |-> m.tool_call_id,
                content |-> m.content]
    ELSE IF "tool_calls" \in DOMAIN m /\ Len(m.tool_calls) > 0
    THEN /\ o.role = "assistant" /\ o.isArray
         /\ LET text == IF m.content # "" THEN 1 ELSE 0
            IN /\ Len(o.content) = text + Len(m.tool_calls)
               /\ text = 1 => o.content[1] = [type |-> "text", text |-> m.content]
               /\ \A n \in 1..Len(m.tool_calls) :
                     /\ o.content[text + n].type = "tool_use"
                     /\ o.content[text + n].id = m.tool_calls[n].id
    ELSE o = [role |-> m.role, isArray |-> FALSE, content |-> m.content]

(* C37: every message the encoder for Anthropic emits has the role user or *)
(* assistant; the emitted messages keep the order of the canonical         *)
(* messages they carry (the emitted message of a later canonical message   *)
(* is never before that of an earlier one, and every emitted message       *)
(* carries one); there are at most as many emitted messages as canonical   *)
(* messages that are not system messages.                                  *)
C37_Emitted ==
    codecPc \in {"posted", "answered", "returned"} =>
       LET msgs == SelectSeq(messages, LAMBDA m : m.role # "system")
           out == requestData.messages
       IN /\ \A j \in 1..Len(out) : out[j].role \in {"user", "assistant"}
          /\ Len(out) <= Len(msgs)
          /\ \A i \in 1..Len(msgs) :
                /\ GroupOf(msgs, i) \in 1..Len(out)
                /\ ComesFrom(out[GroupOf(msgs, i)], msgs, i)
                /\ \A k \in i..Len(msgs) : GroupOf(msgs, i) <= GroupOf(msgs, k)
          /\ \A j \in 1..Len(out) :
                \E i \in 1..Len(msgs) : GroupOf(msgs, i) = j

C37_Witness ==
    /\ codecPc = "posted"
    /\ Len(messages) = 5
    /\ messages[1].role = "system"
    /\ messages[2].role = "user"
    /\ messages[3].role = "assistant" /\ "tool_calls" \in DOMAIN messages[3]
    /\ messages[4].role = "tool" /\ messages[5].role = "tool"
    /\ Len(requestData.messages) = 3
    /\ requestData.messages[3].role = "user"
    /\ Len(requestData.messages[3].content) = 2

----------------------------------------------------------------------------
(* C31: whenever the vendor's answer carries usage, the usage of the       *)
(* LLMResponse has promptTokens, completionTokens and totalTokens, for     *)
(* each of the three adapters, and when the vendor gives no total,         *)
(* totalTokens is promptTokens + completionTokens.                         *)
C31_UsageNormalized ==
    (codecPc = "returned" /\ "usage" \in DOMAIN responseData) =>
       /\ "usage" \in DOMAIN llmResponse
       /\ DOMAIN llmResponse.usage =
             {"promptTokens", "completionTokens", "totalTokens"}
       /\ "total_tokens" \notin DOMAIN responseData.usage =>
             llmResponse.usage.totalTokens =
                llmResponse.usage.promptTokens
                   + llmResponse.usage.completionTokens

(* C32: the finishReason of every LLMResponse an adapter returns is one of *)
(* end_turn, tool_use, max_tokens and other.                               *)
C32_CanonicalFinishReason ==
    codecPc = "returned" => llmResponse.finishReason \in FinishReasons

(* C33: a failure inside complete (no answer in time, no connection, a     *)
(* status that is not 2xx, an answer that cannot be decoded) makes         *)
(* complete throw one ProviderError and nothing else, instead of           *)
(* returning; its message carries the error message of the vendor's error  *)
(* response when that has one, and the text of the caught error otherwise. *)
C33_ProviderError ==
    /\ postError # NoError <=> codecPc = "thrown"
    /\ codecPc = "thrown" =>
          /\ thrown.name = "ProviderError"
          /\ llmResponse = NoResponse
          /\ LET text == IF /\ "response" \in DOMAIN postError
                            /\ "error" \in DOMAIN postError.response.data
                            /\ "message" \in
                                  DOMAIN postError.response.data.error
                            /\ postError.response.data.error.message # ""
                         THEN postError.response.data.error.message
                         ELSE postError.message
             IN thrown.message = vendorLabel(vendor) \o " API error: " \o text
    /\ codecPc # "thrown" => thrown = NoError

C33_Witness ==
    /\ codecPc = "thrown"
    /\ vendor = "openai"
    /\ thrown = [name |-> "ProviderError",
                 message |-> "OpenAI API error: Rate limit exceeded"]
    /\ "response" \in DOMAIN postError
    /\ postError.response.status = 429

(* The other failures of C33: no answer in time, and an answer that cannot *)
(* be decoded                                                              *)
C33_WitnessTimeout ==
    /\ codecPc = "thrown"
    /\ vendor = "anthropic"
    /\ thrown = [name |-> "ProviderError",
                 message |->
                    "Anthropic API error: timeout of 60000ms exceeded"]

C33_WitnessDecode ==
    /\ codecPc = "thrown"
    /\ vendor = "openrouter"
    /\ responseData = [choices |-> <<>>]
    /\ thrown.name = "ProviderError"
    /\ postError.name = "TypeError"

----------------------------------------------------------------------------
(* The decisions sent for a requestId; the mic messages sent, in order *)
DecisionsFor(requestId) ==
    SelectSeq(sent, LAMBDA msg : /\ msg.type \in {"tool_approve", "tool_reject"}
                                 /\ msg.requestId = requestId)

MicMessages ==
    SelectSeq(sent, LAMBDA msg : msg.type \in {"mic_start", "mic_stop"})

(* C39: for each tool card at most one decision (tool_approve or           *)
(* tool_reject) is sent for its requestId; the first click on either       *)
(* button disables both buttons, so that no second click follows.          *)
C39_OneDecision ==
    /\ [](\A k \in 1..Len(cards) :
            /\ Len(DecisionsFor(cards[k].requestId)) <= 1
            /\ cards[k].approveBtn.disabled = cards[k].rejectBtn.disabled
            /\ Len(DecisionsFor(cards[k].requestId)) = 1 =>
                  cards[k].approveBtn.disabled)
    /\ [][\A k \in 1..Len(cards) :
             cards[k].approveBtn.disabled =>
                /\ cards'[k] = cards[k]
                /\ DecisionsFor(cards[k].requestId)' =
                      DecisionsFor(cards[k].requestId)]_vars

C39_Witness ==
    /\ Len(cards) >= 2
    /\ cards[1].approveBtn.disabled /\ cards[1].rejectBtn.disabled
    /\ cards[2].approveBtn.disabled /\ cards[2].rejectBtn.disabled
    /\ DecisionsFor(1) = <<[type |-> "tool_reject", requestId |-> 1]>>
    /\ DecisionsFor(2) = <<[type |-> "tool_approve", requestId |-> 2]>>

(* C40: the mic_start and mic_stop messages sent alternate, beginning with *)
(* mic_start, whatever the order of presses, releases, cancelled touches,  *)
(* slides off the button, ICE failures and closes of the socket; a press   *)
(* made while the agent speaks sends stop_speaking right before mic_start. *)
C40_Alternation ==
    /\ [](\A n \in 1..Len(MicMessages) :
            MicMessages[n].type =
               (IF n % 2 = 1 THEN "mic_start" ELSE "mic_stop"))
    /\ [][(agentSpeaking /\ Len(MicMessages') > Len(MicMessages)
              /\ MicMessages'[Len(MicMessages')].type = "mic_start") =>
            sent' = sent \o <<[type |-> "stop_speaking"],
                              [type |-> "mic_start"]>>]_vars

C40_Witness ==
    /\ Len(MicMessages) = 3
    /\ \E n \in 2..Len(sent) :
          /\ sent[n].type = "mic_start"
          /\ sent[n - 1].type = "stop_speaking"
    /\ startPc = "offered"
    /\ ~isRecording /\ ~micStream /\ ~pc
    /\ ws = "open"

====
